---- MODULE Spec2Model ----
(***************************************************************************)
(* Wallet Registry (WalletService) and Session Bridge (BrowserScreen) of   *)
(* the cross-access mobile app, with the part of WalletScreen that writes  *)
(* to the registry.  JavaScript is single-threaded: every action below is  *)
(* one run-to-completion slice of a handler, from an event (or the         *)
(* resumption of an await) to the next await on an external promise.       *)
(***************************************************************************)
EXTENDS Integers, Sequences, FiniteSets, TLC

\* ------------------------------------------------------------------ bounds
\* number of key pairs ethers.Wallet.createRandom() hands out in one run
MaxKeys == 2
\* number of session proposals the remote peers send in one run
MaxProposals == 1
\* number of session requests the remote peers send in one run
MaxRequests == 2
\* number of messages the embedded page posts in one run
MaxPageRequests == 2
\* number of createWallet / importWallet / importWalletFromMnemonic calls that reach
\* the registry write in one run of the registry with the imports
MaxCalls == 1
\* number of times the browser screen is mounted in one run
MaxMounts == 2
\* number of loadPortfolio calls in flight at a time
MaxLoads == 2

\* ------------------------------------------------------------ vocabulary
NULL == "null"

\* enum ChainType, in declaration order (the order of Object.values)
ChainOrder == <<"ethereum", "polygon", "solana", "binance">>

ChainTypes == {ChainOrder[i] : i \in DOMAIN ChainOrder}

ETHEREUM == ChainOrder[1]

POLYGON == ChainOrder[2]

\* the chains the wallet screen offers
ScreenChains == {ETHEREUM, POLYGON}

\* this.wallets[chainType] = null
NoKey == 0

\* a key a previous run of the app left in the store for chain ChainOrder[i]
StoredKey(i) == i

\* wallet.address: the address ethers derives from a private key
AddressOf(k) == <<"0x", k>>

NoAddress == <<>>

\* `eip155:1:${address}`
AccountId(address) == <<"eip155", "1", address>>

Screens == {"browser", "wallet"}

DappNames == {"Uniswap", "Aave"}

\* proposer.metadata.name of the peer that requires these namespaces
ProposerName(required) == IF "solana" \in DOMAIN required THEN "Aave" ELSE "Uniswap"

\* requiredNamespaces of the proposals the peers send
RequiredNamespaceChoices ==
  { [k \in {"eip155"} |->
        [methods |-> <<"eth_sendTransaction", "personal_sign">>,
         events |-> <<"chainChanged">>]],
    [k \in {"eip155", "solana"} |->
        IF k = "eip155"
          THEN [methods |-> <<"eth_sign">>, events |-> <<"accountsChanged">>]
          ELSE [methods |-> <<"solana_signTransaction">>, events |-> <<>>]],
    [k \in {} |-> [methods |-> <<>>, events |-> <<>>]] }

ProposalIds == 1..MaxProposals

RequestIds == 1..MaxRequests

PageRequestIds == 1..MaxPageRequests

VARIABLES
  \* WalletService
  wallets,      \* this.wallets: chain -> private key of the wallet, or NoKey
  storage,      \* AsyncStorage: chain -> value of wallet_<chain>, or NoKey
  nextKey,      \* the next key createRandom() generates
  creating,     \* createWallet calls suspended in saveWallet
  returned,     \* createWallet calls that have returned their address
  providers,    \* keys of this.providers / this.alchemyInstances
  initPc,       \* per screen: position of its walletService.initialize()
  \* BrowserScreen
  walletClient, isWalletInitialized, registered,
  mounts,       \* number of times the browser screen was mounted
  listeners,    \* mounts whose client has the session handlers attached
  pairings,     \* URIs handed to walletClient.pair
  disconnect,   \* disconnectFromDapp: position, sessions it found, sessions left
  proposals, connectedDapp, isConnecting, alerts,
  approveCalls, \* approveSession calls the WalletConnect client received
  sessions,     \* sessions the WalletConnect client holds active
  taps,         \* buttons the user pressed: [kind, id, button]
  requests,     \* session requests: id -> event and position of its handler
  walletCalls,  \* sendTransaction / signMessage calls made on the WalletService
  responses,    \* what the WalletConnect client was given to send to the peer
  pageRequests, \* messages of the embedded page: id -> message and position
  injected,     \* responses injected into the page (window.ethereum.sendResponse)
  \* window.ethereum, the provider injected into the page
  nextId,       \* this._nextId
  callbacks,    \* ids that have an entry in this._callbacks
  promises,     \* id -> the promise request() returned for it
  posted,       \* id -> method of the message request() posted, NULL if none
  delivered,    \* number of injected responses the page has run
  \* WalletScreen
  selectedChain, isConnected, walletAddress, isLoading,
  selectedNetwork, portfolio,
  loads,        \* loadPortfolio calls in flight
  \* WalletService, called directly
  op            \* the operation called directly: arguments, position, outcome

storeVars == <<wallets, storage, nextKey, creating, returned, providers, initPc>>

regVars == <<storeVars, op>>

browserVars ==
  <<walletClient, isWalletInitialized, registered, mounts, listeners, pairings, disconnect>>

proposalVars == <<proposals, connectedDapp, isConnecting, approveCalls, sessions>>

portfolioVars == <<selectedNetwork, portfolio, loads>>

screenVars == <<selectedChain, isConnected, walletAddress, isLoading, portfolioVars>>

requestVars == <<requests, walletCalls, responses>>

providerVars == <<nextId, callbacks, promises, posted, delivered>>

pageVars == <<pageRequests, injected, providerVars>>

uiVars == <<browserVars, proposalVars, alerts, taps, requestVars, pageVars, screenVars>>

vars == <<regVars, uiVars>>

\* ----------------------------------------------------------- WalletService

hasWallet(c) == wallets[c] # NoKey

\* this.wallets[chainType]?.address || null, in the registry w
AddressIn(w, c) == IF w[c] = NoKey THEN NoAddress ELSE AddressOf(w[c])

getWalletAddress(c) == AddressIn(wallets, c)

\* the registry write of createWallet when the wallet is stored only after the save
SetWalletSkipped(w, c, k) == w

\* the registry write that assigns the wallet to every chain
SetWalletEverywhere(w, c, k) == [x \in DOMAIN w |-> k]

\* this.wallets[chainType] = wallet
SetWallet(w, c, k) == [w EXCEPT ![c] = k]

\* Any other write to this.wallets[c] while a call on c is suspended
Overtake(calls, c) ==
  {IF call.chain = c THEN [call EXCEPT !.overtaken = TRUE] ELSE call : call \in calls}

CanCreate == nextKey <= Len(ChainOrder) + MaxKeys

\* createWallet up to its await: createRandom, the registry write, setItem issued
CreateWalletBegin(caller, c) ==
  /\ CanCreate
  /\ wallets' = SetWallet(wallets, c, nextKey)
  /\ creating' = Overtake(creating, c) \cup
       {[caller |-> caller, chain |-> c, key |-> nextKey, overtaken |-> FALSE]}
  /\ nextKey' = nextKey + 1
  /\ UNCHANGED <<storage, returned, providers, initPc, op>>

\* saveWallet resumes: the write succeeded, or failed and the failure is swallowed;
\* createWallet then returns wallet.address
CreateWalletEnd(call, saved) ==
  /\ call \in creating
  /\ storage' = IF saved THEN [storage EXCEPT ![call.chain] = call.key] ELSE storage
  /\ creating' = creating \ {call}
  /\ returned' = returned \cup {call}
  /\ UNCHANGED <<wallets, nextKey, providers, initPc, op>>

\* setupProviders
ProviderKeys ==
  {<<ETHEREUM, "eth-mainnet">>, <<ETHEREUM, "eth-goerli">>,
   <<POLYGON, "polygon-mainnet">>, <<POLYGON, "polygon-mumbai">>}

\* initialize() with the call of setupProviders left out
SetupProvidersSkipped(table) == table

\* setupProviders assigns the four entries of each table
SetupProviders(table) == table \cup ProviderKeys

InitDone == Len(ChainOrder) + 1

\* the mount effect of screen s has run
Mounted(s) == initPc[s] > 0

\* initialize() is called by the mount effect of a screen
InitializeBegin(s) ==
  /\ initPc[s] = 0
  /\ initPc' = [initPc EXCEPT ![s] = 1]
  /\ UNCHANGED <<wallets, storage, nextKey, creating, returned, providers, op>>

\* loadWallets: one AsyncStorage.getItem resumes; after the last one, setupProviders
LoadWalletStep(s) ==
  /\ initPc[s] \in DOMAIN ChainOrder
  /\ LET c == ChainOrder[initPc[s]] IN
       /\ wallets' = IF storage[c] # NoKey THEN SetWallet(wallets, c, storage[c]) ELSE wallets
       /\ creating' = IF storage[c] # NoKey THEN Overtake(creating, c) ELSE creating
  /\ initPc' = [initPc EXCEPT ![s] = @ + 1]
  /\ providers' = IF initPc[s] = Len(ChainOrder) THEN SetupProviders(providers) ELSE providers
  /\ UNCHANGED <<storage, nextKey, returned, op>>

\* loadWallets: getItem rejects, or the value read is not a key new ethers.Wallet
\* accepts; the catch logs it and the loop is left; then setupProviders
LoadWalletFails(s) ==
  /\ initPc[s] \in DOMAIN ChainOrder
  /\ initPc' = [initPc EXCEPT ![s] = InitDone]
  /\ providers' = SetupProviders(providers)
  /\ UNCHANGED <<wallets, storage, nextKey, creating, returned, op>>

\* ------------------------------------------------------------ BrowserScreen

\* The walletClient the registered session handlers see.  They are registered once,
\* by the mount effect (deps []), as the useCallback closures of the first render,
\* in which the walletClient state still has its initial value.
CapturedWalletClient == NULL

MountBrowser ==
  /\ mounts < MaxMounts
  /\ InitializeBegin("browser")
  /\ mounts' = mounts + 1
  /\ UNCHANGED <<walletClient, isWalletInitialized, registered, listeners, pairings,
                 disconnect>>
  /\ UNCHANGED <<proposalVars, alerts, taps, requestVars, pageVars, screenVars>>

BrowserLoadWallets ==
  /\ \/ LoadWalletStep("browser")
     \/ LoadWalletFails("browser")
  /\ UNCHANGED <<browserVars, proposalVars, alerts, taps, requestVars, pageVars, screenVars>>

Alert(title, kind, id) == [title |-> title, kind |-> kind, id |-> id]

NoDisconnect == [phase |-> "none", found |-> {}, left |-> {}]

\* the catch of initialize() has shown its alert in this mount
InitializationFailed == Alert("Initialization Error", "browser", mounts) \in alerts

\* SignClient.init and Web3Wallet.init resolve (or one of them rejects)
WalletConnectInit ==
  /\ initPc["browser"] = InitDone
  /\ ~registered
  /\ walletClient = NULL
  /\ ~InitializationFailed
  /\ \/ /\ walletClient' = "web3wallet"
        /\ isWalletInitialized' = TRUE
        /\ registered' = TRUE
        /\ listeners' = listeners \cup {mounts}
        /\ UNCHANGED <<mounts, pairings, disconnect, alerts>>
     \/ /\ alerts' = alerts \cup {Alert("Initialization Error", "browser", mounts)}
        /\ UNCHANGED browserVars
  /\ UNCHANGED <<regVars, proposalVars, taps, requestVars, pageVars, screenVars>>

\* The screen is unmounted once its initialize() has settled: the cleanup of the
\* mount effect runs with the walletClient of the render that created it, and the
\* state of the component is dropped.
UnmountBrowser ==
  /\ initPc["browser"] = InitDone
  /\ registered \/ InitializationFailed
  /\ listeners' = IF CapturedWalletClient # NULL THEN listeners \ {mounts} ELSE listeners
  /\ initPc' = [initPc EXCEPT !["browser"] = 0]
  /\ walletClient' = NULL
  /\ isWalletInitialized' = FALSE
  /\ registered' = FALSE
  /\ connectedDapp' = NULL
  /\ isConnecting' = FALSE
  /\ UNCHANGED <<wallets, storage, nextKey, creating, returned, providers, op, mounts,
                 pairings, disconnect, proposals, approveCalls, sessions, alerts, taps,
                 requestVars, pageVars, screenVars>>

\* namespaces built from requiredNamespaces and the wallet address
BuildNamespaces(required, address) ==
  [key \in DOMAIN required |->
     [accounts |-> <<AccountId(address)>>,
      methods |-> required[key].methods,
      events |-> required[key].events]]

NoProposal ==
  [phase |-> "none", name |-> NULL, required |-> <<>>, namespaces |-> <<>>,
   address |-> NoAddress, hadWallet |-> FALSE, retried |-> FALSE]

ProposalCaller(p) == <<"proposal", p>>

ProposalAlert(title, p) == Alert(title, "proposal", p)

\* if (!walletService.hasWallet(ChainType.ETHEREUM)), skipped
NeedsWalletNever == FALSE

\* if (!walletService.hasWallet(ChainType.ETHEREUM))
NeedsWallet == ~hasWallet(ETHEREUM)

\* handleSessionProposal(proposal), run to completion; ps is the table of proposals
\* with this proposal in it.  walletClient?.approveSession is a call only when the
\* captured client is not null; the call then resolves (approved) or rejects.
HandleSessionProposal(p, ps, approved) ==
  IF NeedsWallet
    THEN /\ proposals' = [ps EXCEPT ![p].phase = "AwaitingWalletCreation"]
         /\ alerts' = alerts \cup {ProposalAlert("Wallet Required", p)}
         /\ isConnecting' = FALSE
         /\ UNCHANGED <<connectedDapp, approveCalls, sessions>>
    ELSE IF getWalletAddress(ETHEREUM) = NoAddress
    THEN /\ proposals' = [ps EXCEPT ![p].phase = "AddressNotFound"]
         /\ alerts' = alerts \cup {ProposalAlert("Error", p)}
         /\ isConnecting' = FALSE
         /\ UNCHANGED <<connectedDapp, approveCalls, sessions>>
    ELSE LET address == getWalletAddress(ETHEREUM)
             namespaces == BuildNamespaces(ps[p].required, address)
             call == [id |-> p, namespaces |-> namespaces]
             called == CapturedWalletClient # NULL
             ok == ~called \/ approved
         IN  /\ connectedDapp' = ps[p].name
             /\ isConnecting' = FALSE
             /\ approveCalls' = IF called THEN approveCalls \cup {call} ELSE approveCalls
             /\ sessions' = IF called /\ approved THEN sessions \cup {call} ELSE sessions
             /\ proposals' = [ps EXCEPT
                  ![p].phase = IF ok THEN "Connected" ELSE "ConnectionError",
                  ![p].namespaces = namespaces,
                  ![p].address = address]
             /\ alerts' = alerts \cup
                  {ProposalAlert(IF ok THEN "Connected" ELSE "Connection Error", p)}

\* the client emits session_proposal to the registered handler
SessionProposal(p) ==
  /\ registered
  /\ proposals[p].phase = "none"
  /\ \A q \in ProposalIds : q < p => proposals[q].phase # "none"
  /\ \E required \in RequiredNamespaceChoices, approved \in BOOLEAN :
       HandleSessionProposal(p,
         [proposals EXCEPT ![p].name = ProposerName(required), ![p].required = required,
                           ![p].hadWallet = (wallets[ETHEREUM] # NoKey)],
         approved)
  /\ UNCHANGED <<regVars, browserVars, taps, requestVars, pageVars, screenVars>>

Tap(kind, id, button) == [kind |-> kind, id |-> id, button |-> button]

\* 'Wallet Required' alert of a proposal: Cancel
ProposalCancel(p) ==
  /\ proposals[p].phase = "AwaitingWalletCreation"
  /\ proposals' = [proposals EXCEPT ![p].phase = "Cancelled"]
  /\ taps' = taps \cup {Tap("proposal", p, "Cancel")}
  /\ UNCHANGED <<regVars, browserVars, connectedDapp, isConnecting, approveCalls,
                 sessions, alerts, requestVars, pageVars, screenVars>>

\* 'Wallet Required' alert of a proposal: Create Wallet, up to the await in
\* createWallet; or createRandom throws and the catch shows the error alert
ProposalCreateWallet(p) ==
  /\ proposals[p].phase = "AwaitingWalletCreation"
  /\ taps' = taps \cup {Tap("proposal", p, "Create Wallet")}
  /\ \/ /\ CreateWalletBegin(ProposalCaller(p), ETHEREUM)
        /\ proposals' = [proposals EXCEPT ![p].phase = "CreatingWallet"]
        /\ UNCHANGED alerts
     \/ /\ proposals' = [proposals EXCEPT ![p].phase = "CreateFailed"]
        /\ alerts' = alerts \cup {ProposalAlert("Error", p)}
        /\ UNCHANGED regVars
  /\ UNCHANGED <<browserVars, connectedDapp, isConnecting, approveCalls, sessions,
                 requestVars, pageVars, screenVars>>

\* createWallet of a proposal returns: handleSessionProposal(proposal) again
ProposalWalletCreated(p) ==
  /\ \E call \in creating, saved \in BOOLEAN, approved \in BOOLEAN :
       /\ call.caller = ProposalCaller(p)
       /\ CreateWalletEnd(call, saved)
       /\ HandleSessionProposal(p, [proposals EXCEPT ![p].retried = TRUE], approved)
  /\ UNCHANGED <<browserVars, taps, requestVars, pageVars, screenVars>>

\* ------------------------------------------------------------- WalletScreen

ConnectCaller == <<"connect", 0>>

MountWalletScreen ==
  /\ InitializeBegin("wallet")
  /\ UNCHANGED <<browserVars, proposalVars, alerts, taps, requestVars, pageVars, screenVars>>

\* The handlers of the wallet screen follow, as what they do to the registry and to
\* the connection state: the portfolio of the screen is left out (selectedNetwork,
\* portfolio and the loadPortfolio calls are not followed, isLoading is the one of
\* connectWallet).  The whole handlers, with loadPortfolio and the refresh effect
\* that follows them, come under "WalletScreen: portfolio".

\* initWallet after initialize() resolved; its selectedChain is the first render's
InitWalletContinue(w) ==
  /\ isConnected' = (w[ETHEREUM] # NoKey)
  /\ walletAddress' = IF w[ETHEREUM] # NoKey THEN AddressOf(w[ETHEREUM]) ELSE walletAddress
  /\ UNCHANGED <<selectedChain, isLoading, portfolioVars>>

WalletScreenLoadWallets ==
  /\ \/ LoadWalletStep("wallet")
     \/ LoadWalletFails("wallet")
  /\ IF initPc'["wallet"] = InitDone
       THEN InitWalletContinue(wallets')
       ELSE UNCHANGED screenVars
  /\ UNCHANGED <<browserVars, proposalVars, alerts, taps, requestVars, pageVars>>

\* connectWallet up to the await in createWallet (or createRandom throws)
ConnectWallet ==
  /\ Mounted("wallet")
  /\ ~isConnected
  /\ ~isLoading
  /\ \/ /\ CreateWalletBegin(ConnectCaller, selectedChain)
        /\ isLoading' = TRUE
        /\ UNCHANGED alerts
     \/ /\ alerts' = alerts \cup {Alert("Error", "connect", 0)}
        /\ UNCHANGED <<regVars, isLoading>>
  /\ UNCHANGED <<browserVars, proposalVars, taps, requestVars, pageVars, selectedChain, isConnected,
                 walletAddress, portfolioVars>>

\* createWallet of connectWallet returns
ConnectWalletReturn ==
  /\ \E call \in creating, saved \in BOOLEAN :
       /\ call.caller = ConnectCaller
       /\ CreateWalletEnd(call, saved)
       /\ walletAddress' = AddressOf(call.key)
  /\ isConnected' = TRUE
  /\ isLoading' = FALSE
  /\ UNCHANGED <<browserVars, proposalVars, alerts, taps, requestVars, pageVars, selectedChain,
                 portfolioVars>>

DisconnectWallet ==
  /\ Mounted("wallet")
  /\ isConnected
  /\ ~isLoading
  /\ isConnected' = FALSE
  /\ walletAddress' = NoAddress
  /\ UNCHANGED <<regVars, browserVars, proposalVars, alerts, taps, requestVars, pageVars,
                 selectedChain, isLoading, portfolioVars>>

SwitchChain(c) ==
  /\ Mounted("wallet")
  /\ selectedChain' = c
  /\ isConnected' = hasWallet(c)
  /\ walletAddress' = getWalletAddress(c)
  /\ UNCHANGED <<regVars, browserVars, proposalVars, alerts, taps, requestVars, pageVars,
                 isLoading, portfolioVars>>

\* ------------------------------------------- BrowserScreen: session requests

\* code 4001 of the reasons handleSessionRequest gives to rejectSession
UserRejectedCode == 4001

\* code 4200 of the error handleEthereumRequest returns for an unsupported method
UnsupportedMethodCode == 4200

\* CHAIN_NETWORKS[ChainType.ETHEREUM][0].network
DefaultEthereumNetwork == "eth-mainnet"

\* session_request events the peers send: params.request.method / params, topic
RequestChoices ==
  { [method |-> "eth_sendTransaction", topic |-> "topicA",
     params |-> <<[to |-> "0xA11CE", value |-> "0x1"]>>],
    [method |-> "eth_sendTransaction", topic |-> "topicB",
     params |-> <<[to |-> "0xB0B", value |-> "0x2"]>>],
    [method |-> "personal_sign", topic |-> "topicA", params |-> <<"hello", "0xA11CE">>],
    [method |-> "eth_sign", topic |-> "topicB", params |-> <<"bye", "0xB0B">>],
    [method |-> "eth_accounts", topic |-> "topicA", params |-> <<>>] }

NoRequest ==
  [phase |-> "none", method |-> NULL, topic |-> NULL, params |-> <<>>,
   prompt |-> <<>>, key |-> NoKey]

SigningMethods == {"eth_sign", "personal_sign"}

\* the text of the 'Transaction Request' alert
TransactionPrompt(params) == <<"To", params[1].to, "Value", params[1].value>>

\* the arguments of sendTransaction with to and value exchanged
TransactionArgsSwapped(params) == [to |-> params[1].value, value |-> params[1].to]

\* methodParams[0].to, methodParams[0].value as passed to sendTransaction
TransactionArgs(params) == [to |-> params[1].to, value |-> params[1].value]

\* tx.hash of a transaction the wallet with key k submitted
HashOf(k, to, value) == <<"hash", k, to, value>>

\* the signature the wallet with key k gives for a message
SignatureOf(k, message) == <<"signature", k, message>>

\* walletClient?.m(payload) in a session handler: a call only if the client it
\* captured is not null
ClientCall(sent, payload) ==
  IF CapturedWalletClient = NULL THEN sent ELSE Append(sent, payload)

RejectSession(id, message) ==
  [call |-> "rejectSession", id |-> id, code |-> UserRejectedCode, message |-> message]

RespondSessionRequest(topic, id, result) ==
  [call |-> "respondSessionRequest", topic |-> topic, id |-> id, jsonrpc |-> "2.0",
   result |-> result]

\* the client emits session_request to the registered handler
SessionRequest(r) ==
  /\ registered
  /\ requests[r].phase = "none"
  /\ \A q \in RequestIds : q < r => requests[q].phase # "none"
  /\ \E event \in RequestChoices :
       LET arrived == [requests EXCEPT ![r].method = event.method,
                                       ![r].topic = event.topic,
                                       ![r].params = event.params]
       IN  IF event.method = "eth_sendTransaction"
             THEN /\ requests' = [arrived EXCEPT ![r].phase = "Prompt",
                                    ![r].prompt = TransactionPrompt(event.params)]
                  /\ UNCHANGED responses
           ELSE IF event.method \in SigningMethods
             THEN /\ requests' = [arrived EXCEPT ![r].phase = "Prompt",
                                    ![r].prompt = <<"Do you want to sign this message?">>]
                  /\ UNCHANGED responses
             ELSE /\ requests' = [arrived EXCEPT ![r].phase = "Unsupported"]
                  /\ responses' = ClientCall(responses, RejectSession(r, "Method not supported"))
  /\ UNCHANGED <<regVars, browserVars, proposalVars, alerts, taps, walletCalls, pageVars,
                 screenVars>>

\* the alert of a request: Reject
RequestReject(r) ==
  /\ requests[r].phase = "Prompt"
  /\ taps' = taps \cup {Tap("request", r, "Reject")}
  /\ requests' = [requests EXCEPT ![r].phase = "Rejected"]
  /\ responses' = ClientCall(responses, RejectSession(r, "User rejected"))
  /\ UNCHANGED <<regVars, browserVars, proposalVars, alerts, walletCalls, pageVars, screenVars>>

\* the 'Transaction Request' alert: Approve, up to the await in sendTransaction
\* (or sendTransaction throws: no wallet, no provider)
RequestApprove(r) ==
  /\ requests[r].phase = "Prompt"
  /\ requests[r].method = "eth_sendTransaction"
  /\ taps' = taps \cup {Tap("request", r, "Approve")}
  /\ LET args == TransactionArgs(requests[r].params) IN
       walletCalls' = Append(walletCalls,
         [op |-> "sendTransaction", request |-> r, chainType |-> ETHEREUM,
          network |-> DefaultEthereumNetwork, to |-> args.to, value |-> args.value])
  /\ IF hasWallet(ETHEREUM) /\ <<ETHEREUM, DefaultEthereumNetwork>> \in providers
       THEN /\ requests' = [requests EXCEPT ![r].phase = "Sending",
                                            ![r].key = wallets[ETHEREUM]]
            /\ UNCHANGED responses
       ELSE /\ requests' = [requests EXCEPT ![r].phase = "Failed"]
            /\ responses' = ClientCall(responses, RejectSession(r, "Transaction failed"))
  /\ UNCHANGED <<regVars, browserVars, proposalVars, alerts, pageVars, screenVars>>

\* connectedWallet.sendTransaction resolves with the transaction, or rejects
RequestSendSettles(r) ==
  /\ requests[r].phase = "Sending"
  /\ \E sent \in BOOLEAN :
       LET args == TransactionArgs(requests[r].params) IN
       IF sent
         THEN /\ requests' = [requests EXCEPT ![r].phase = "Sent"]
              /\ responses' = ClientCall(responses,
                   RespondSessionRequest(requests[r].topic, r,
                                         HashOf(requests[r].key, args.to, args.value)))
         ELSE /\ requests' = [requests EXCEPT ![r].phase = "Failed"]
              /\ responses' = ClientCall(responses, RejectSession(r, "Transaction failed"))
  /\ UNCHANGED <<regVars, browserVars, proposalVars, alerts, taps, walletCalls, pageVars,
                 screenVars>>

\* the 'Signature Request' alert: Sign, up to the await on signMessage
RequestSign(r) ==
  /\ requests[r].phase = "Prompt"
  /\ requests[r].method \in SigningMethods
  /\ taps' = taps \cup {Tap("request", r, "Sign")}
  /\ walletCalls' = Append(walletCalls,
       [op |-> "signMessage", request |-> r, chainType |-> ETHEREUM,
        message |-> requests[r].params[1]])
  /\ IF hasWallet(ETHEREUM)
       THEN /\ requests' = [requests EXCEPT ![r].phase = "Signing",
                                            ![r].key = wallets[ETHEREUM]]
            /\ UNCHANGED responses
       ELSE /\ requests' = [requests EXCEPT ![r].phase = "Failed"]
            /\ responses' = ClientCall(responses, RejectSession(r, "Signing failed"))
  /\ UNCHANGED <<regVars, browserVars, proposalVars, alerts, pageVars, screenVars>>

\* wallet.signMessage resolves with the signature, or rejects
RequestSignSettles(r) ==
  /\ requests[r].phase = "Signing"
  /\ \E signed \in BOOLEAN :
       IF signed
         THEN /\ requests' = [requests EXCEPT ![r].phase = "Signed"]
              /\ responses' = ClientCall(responses,
                   RespondSessionRequest(requests[r].topic, r,
                                         SignatureOf(requests[r].key, requests[r].params[1])))
         ELSE /\ requests' = [requests EXCEPT ![r].phase = "Failed"]
              /\ responses' = ClientCall(responses, RejectSession(r, "Signing failed"))
  /\ UNCHANGED <<regVars, browserVars, proposalVars, alerts, taps, walletCalls, pageVars,
                 screenVars>>

\* ---------------------------------------- BrowserScreen: embedded page bridge

PageMethods == {"eth_requestAccounts", "eth_chainId"}

\* data.uri of a message that has none
NoUri == <<>>

NoPageRequest == [phase |-> "none", method |-> NULL, uri |-> NoUri]

\* a promise request() has not created yet
NoPromise == [state |-> "none", value |-> <<>>, by |-> 0, calls |-> 0]

PageCaller(r) == <<"page", r>>

PageResult(id, result) == [id |-> id, jsonrpc |-> "2.0", result |-> result]

PageError(id) ==
  [id |-> id, jsonrpc |-> "2.0",
   error |-> [code |-> UnsupportedMethodCode, message |-> "Method not supported"]]

\* onMessage with {id, method, params}: handleWalletConnectRequest passes it to
\* handleEthereumRequest
PageMessage(r) ==
  /\ Mounted("browser")
  /\ pageRequests[r].phase = "none"
  /\ \A q \in PageRequestIds : q < r => pageRequests[q].phase # "none"
  /\ \E method \in PageMethods :
       LET arrived == [pageRequests EXCEPT ![r].method = method] IN
       IF method = "eth_requestAccounts"
         THEN IF ~hasWallet(ETHEREUM)
                THEN /\ pageRequests' = [arrived EXCEPT ![r].phase = "WalletRequired"]
                     /\ alerts' = alerts \cup {Alert("Wallet Required", "page", r)}
                     /\ UNCHANGED injected
              ELSE IF getWalletAddress(ETHEREUM) # NoAddress
                THEN /\ pageRequests' = [arrived EXCEPT ![r].phase = "Answered"]
                     /\ injected' = Append(injected,
                                      PageResult(r, <<getWalletAddress(ETHEREUM)>>))
                     /\ UNCHANGED alerts
                ELSE /\ pageRequests' = [arrived EXCEPT ![r].phase = "Dropped"]
                     /\ UNCHANGED <<injected, alerts>>
         ELSE /\ pageRequests' = [arrived EXCEPT ![r].phase = "Unsupported"]
              /\ injected' = Append(injected, PageError(r))
              /\ UNCHANGED alerts
  /\ UNCHANGED <<regVars, browserVars, proposalVars, taps, requestVars, providerVars,
                 screenVars>>

\* 'Wallet Required' alert of a page request: Cancel
PageCancel(r) ==
  /\ pageRequests[r].phase = "WalletRequired"
  /\ pageRequests' = [pageRequests EXCEPT ![r].phase = "Cancelled"]
  /\ taps' = taps \cup {Tap("page", r, "Cancel")}
  /\ UNCHANGED <<regVars, browserVars, proposalVars, alerts, requestVars, injected,
                 providerVars, screenVars>>

\* 'Wallet Required' alert of a page request: Create Wallet, up to the await in
\* createWallet; or createRandom throws and the catch shows the error alert
PageCreateWallet(r) ==
  /\ pageRequests[r].phase = "WalletRequired"
  /\ taps' = taps \cup {Tap("page", r, "Create Wallet")}
  /\ \/ /\ CreateWalletBegin(PageCaller(r), ETHEREUM)
        /\ pageRequests' = [pageRequests EXCEPT ![r].phase = "CreatingWallet"]
        /\ UNCHANGED alerts
     \/ /\ pageRequests' = [pageRequests EXCEPT ![r].phase = "CreateFailed"]
        /\ alerts' = alerts \cup {Alert("Error", "page", r)}
        /\ UNCHANGED regVars
  /\ UNCHANGED <<browserVars, proposalVars, requestVars, injected, providerVars, screenVars>>

\* createWallet of a page request returns: the address is injected into the page
PageWalletCreated(r) ==
  /\ \E call \in creating, saved \in BOOLEAN :
       /\ call.caller = PageCaller(r)
       /\ CreateWalletEnd(call, saved)
       /\ injected' = Append(injected, PageResult(r, <<AddressOf(call.key)>>))
  /\ pageRequests' = [pageRequests EXCEPT ![r].phase = "Answered"]
  /\ UNCHANGED <<browserVars, proposalVars, alerts, taps, requestVars, providerVars,
                 screenVars>>

\* ------------------------------------------- WalletService called directly

ApiCaller(s) == <<"api", s>>

\* a screen calls createWallet(c)
ApiCreateWallet(s, c) ==
  /\ \A call \in creating : call.caller # ApiCaller(s)
  /\ CreateWalletBegin(ApiCaller(s), c)
  /\ UNCHANGED <<browserVars, proposalVars, alerts, taps, requestVars, pageVars, screenVars>>

\* a screen's createWallet, importWallet or importWalletFromMnemonic returns
ApiCreateWalletReturn(s) ==
  /\ \E call \in creating, saved \in BOOLEAN :
       /\ call.caller = ApiCaller(s)
       /\ CreateWalletEnd(call, saved)
  /\ UNCHANGED <<browserVars, proposalVars, alerts, taps, requestVars, pageVars, screenVars>>

ApiInitialize(s) ==
  /\ \/ InitializeBegin(s)
     \/ LoadWalletStep(s)
     \/ LoadWalletFails(s)
  /\ UNCHANGED <<browserVars, proposalVars, alerts, taps, requestVars, pageVars, screenVars>>

\* ------------------------------------------------- WalletService: imports

\* the strings new ethers.Wallet(privateKey) accepts, with the key each one holds
WellFormedKeys == ("0x01" :> StoredKey(1)) @@ ("0x02" :> StoredKey(2))

\* the strings handed to importWallet
PrivateKeyChoices == DOMAIN WellFormedKeys \cup {"", "0x0g"}

\* the phrases ethers.Wallet.fromMnemonic accepts, with the key each one derives
WellFormedMnemonics == ("legal winner thank year" :> StoredKey(3))

\* the phrases handed to importWalletFromMnemonic
MnemonicChoices == DOMAIN WellFormedMnemonics \cup {"legal winner"}

\* new ethers.Wallet(privateKey) that takes any string for a key
NewWalletUnchecked(privateKey) ==
  IF privateKey \in DOMAIN WellFormedKeys THEN WellFormedKeys[privateKey]
  ELSE StoredKey(Len(ChainOrder))

\* new ethers.Wallet(privateKey): the wallet of the key, or it throws (NoKey)
NewWallet(privateKey) ==
  IF privateKey \in DOMAIN WellFormedKeys THEN WellFormedKeys[privateKey] ELSE NoKey

\* ethers.Wallet.fromMnemonic(mnemonic): the wallet derived, or it throws (NoKey)
fromMnemonic(mnemonic) ==
  IF mnemonic \in DOMAIN WellFormedMnemonics THEN WellFormedMnemonics[mnemonic] ELSE NoKey

NoOp ==
  [name |-> NULL, chainType |-> NULL, network |-> NULL, args |-> <<>>, phase |-> "none",
   error |-> <<>>, result |-> <<>>, key |-> NoKey, external |-> <<>>, received |-> <<>>,
   pending |-> <<>>]

\* an operation is entered with its arguments
Called(name, c, n, args) ==
  [NoOp EXCEPT !.name = name, !.chainType = c, !.network = n, !.args = args]

\* throw new Error(message), or a rejection that propagates to the caller
Throws(call, message) == [call EXCEPT !.phase = "Threw", !.error = message]

Returns(call, result) == [call EXCEPT !.phase = "Returned", !.result = result]

CanCall == Cardinality(creating \cup returned) < MaxCalls

\* importWallet / importWalletFromMnemonic up to the await in saveWallet, or up
\* to the throw of the catch block; key is the wallet the constructor gave
ImportBegin(name, caller, c, text, key, message) ==
  /\ IF key = NoKey
       THEN /\ op' = Throws(Called(name, c, NULL, <<text>>), <<message>>)
            /\ UNCHANGED <<wallets, creating>>
       ELSE /\ CanCall
            /\ op' = [Called(name, c, NULL, <<text>>) EXCEPT !.phase = "Saving", !.key = key]
            /\ wallets' = SetWallet(wallets, c, key)
            /\ creating' = Overtake(creating, c) \cup
                 {[caller |-> caller, chain |-> c, key |-> key, overtaken |-> FALSE]}
  /\ UNCHANGED <<storage, nextKey, returned, providers, initPc>>

ApiImportWallet(s, c, privateKey) ==
  /\ \A call \in creating : call.caller # ApiCaller(s)
  /\ ImportBegin("importWallet", ApiCaller(s), c, privateKey, NewWallet(privateKey),
                 "Invalid private key")
  /\ UNCHANGED <<browserVars, proposalVars, alerts, taps, requestVars, pageVars, screenVars>>

ApiImportWalletFromMnemonic(s, c, mnemonic) ==
  /\ \A call \in creating : call.caller # ApiCaller(s)
  /\ ImportBegin("importWalletFromMnemonic", ApiCaller(s), c, mnemonic,
                 fromMnemonic(mnemonic), "Invalid mnemonic phrase")
  /\ UNCHANGED <<browserVars, proposalVars, alerts, taps, requestVars, pageVars, screenVars>>

\* ------------------------- WalletService: balances, transfers, signing

\* values of the Network enum the callers pass
Networks ==
  {"eth-mainnet", "eth-goerli", "polygon-mainnet", "polygon-mumbai", "arb-mainnet"}

\* the check if (!wallet), left out
WalletMissingNever(c) == FALSE

\* const wallet = this.wallets[chainType]; if (!wallet)
WalletMissing(c) == wallets[c] = NoKey

\* the check if (!this.providers[key]), left out
HasClientAlways(c, n) == TRUE

\* this.providers[key] / this.alchemyInstances[key] of `${chainType}_${network}`
HasClient(c, n) == <<c, n>> \in providers

\* the branch on the chain type, always taken
HasIndexerAlways(c) == TRUE

\* chainType === ChainType.ETHEREUM || chainType === ChainType.POLYGON
HasIndexer(c) == c \in {ETHEREUM, POLYGON}

WalletNotFound == <<"Wallet not found">>

\* `Provider not found for ${chainType} ${network}`
ProviderNotFound(c, n) == <<"Provider not found for", c, n>>

\* `Alchemy instance not found for ${chainType} ${network}`
AlchemyNotFound(c, n) == <<"Alchemy instance not found for", c, n>>

\* a rejection of the external client, which the operation does not catch
ClientError == <<"client error">>

\* a call made on an external client: a provider, an Alchemy instance, the signer
ExternalCall(client, method, args) == [client |-> client, method |-> method, args |-> args]

\* the operation suspends in a call on an external client
Awaits(call, external) ==
  [call EXCEPT !.phase = "Awaiting", !.external = Append(@, external)]

\* the method of the external call the operation is suspended in
Awaited == op.external[Len(op.external)].method

\* the operation resumes with what the external call resolved with
Resumed(received) == [op EXCEPT !.received = <<received>>]

\* what the clients answer
BalanceChoices == {"0", "1500000000000000000"}

\* formatEther(balance)
FormatEther(balance) == <<"ether", balance>>

\* ethers.utils.parseEther(amount)
ParseEther(amount) == <<"wei", amount>>

Now == "Date.now()"

TokenBalanceChoices ==
  { <<>>,
    <<[contractAddress |-> "0xDA1", tokenBalance |-> "7"]>>,
    <<[contractAddress |-> "0x0FF", tokenBalance |-> NULL],
      [contractAddress |-> "0xDA1", tokenBalance |-> "7"]>> }

\* decimals 0 stands for a missing or zero decimals field
MetadataChoices ==
  { [symbol |-> "DAI", name |-> "Dai", decimals |-> 6, logo |-> "dai.png"],
    [symbol |-> NULL, name |-> NULL, decimals |-> 0, logo |-> NULL] }

\* metadata.decimals || 18
DefaultDecimals == 18

\* x || fallback
OrElse(x, fallback) == IF x = NULL THEN fallback ELSE x

\* the TokenBalance pushed for one entry of tokenBalances
TokenBalanceOf(tokenBalance, metadata, c) ==
  [token |-> [symbol |-> OrElse(metadata.symbol, "Unknown"),
              name |-> OrElse(metadata.name, "Unknown Token"),
              decimals |-> IF metadata.decimals = 0 THEN DefaultDecimals
                           ELSE metadata.decimals,
              address |-> tokenBalance.contractAddress,
              chainType |-> c,
              logoURI |-> metadata.logo],
   balance |-> FormatEther(tokenBalance.tokenBalance),
   value |-> "0.00"]

\* value 0 stands for a missing or zero value field
TransferChoices ==
  { <<>>,
    <<[hash |-> "0xT1", from |-> "0xA11CE", to |-> "0xB0B", value |-> 3,
       blockTimestamp |-> "2024-01-01T00:00:00Z"],
      [hash |-> "0xT2", from |-> "0xB0B", to |-> "0xA11CE", value |-> 0,
       blockTimestamp |-> NULL]>> }

\* status of the Transaction sendTransaction returns, as 'failed'
SentStatusFailed == "failed"

\* status: 'pending'
SentStatus == "pending"

\* status: 'confirmed'
HistoryStatus == "confirmed"

\* the Transaction a transfer of the history is mapped to
TransactionOf(transfer, c, n) ==
  [hash |-> transfer.hash,
   from |-> transfer.from,
   to |-> transfer.to,
   value |-> <<"string", transfer.value>>,
   timestamp |-> IF transfer.blockTimestamp = NULL THEN <<Now>>
                 ELSE <<"getTime", transfer.blockTimestamp>>,
   status |-> HistoryStatus,
   chainType |-> c,
   network |-> n]

ToAddresses == {"0xA11CE", "0xB0B"}

Amounts == {"0.5", "2"}

Messages == {"hello"}

\* the operation a run follows is called
Enter(call) ==
  /\ op.phase = "none"
  /\ op' = call
  /\ UNCHANGED <<storeVars, uiVars>>

\* the suspended operation resumes
Resume(name, method, call) ==
  /\ op.phase = "Awaiting"
  /\ op.name = name
  /\ Awaited = method
  /\ op' = call
  /\ UNCHANGED <<storeVars, uiVars>>

\* getBalance up to its await on provider.getBalance
GetBalance(c, n) ==
  LET call == [Called("getBalance", c, n, <<>>) EXCEPT !.key = wallets[c]] IN
  Enter(IF WalletMissing(c) THEN Throws(call, WalletNotFound)
        ELSE IF ~HasClient(c, n) THEN Throws(call, ProviderNotFound(c, n))
        ELSE Awaits(call, ExternalCall(<<"provider", c, n>>, "getBalance",
                                       <<AddressOf(wallets[c])>>)))

GetBalanceSettles ==
  \/ \E balance \in BalanceChoices :
       Resume("getBalance", "getBalance", Returns(Resumed(balance), <<FormatEther(balance)>>))
  \/ Resume("getBalance", "getBalance", Throws(op, ClientError))

RECURSIVE NextToken(_)
\* the loop over tokenBalances up to its next await on getTokenMetadata: entries
\* without a tokenBalance are skipped; after the last entry the balances are returned
NextToken(call) ==
  IF call.pending = <<>> THEN Returns(call, call.result)
  ELSE IF Head(call.pending).tokenBalance = NULL
    THEN NextToken([call EXCEPT !.pending = Tail(@)])
  ELSE Awaits(call, ExternalCall(<<"alchemy", call.chainType, call.network>>,
                                 "getTokenMetadata",
                                 <<Head(call.pending).contractAddress>>))

\* getTokenBalances up to its await on alchemy.core.getTokenBalances
GetTokenBalances(c, n) ==
  LET call == [Called("getTokenBalances", c, n, <<>>) EXCEPT !.key = wallets[c]] IN
  Enter(IF WalletMissing(c) THEN Throws(call, WalletNotFound)
        ELSE IF ~HasIndexer(c) THEN Returns(call, <<>>)
        ELSE IF ~HasClient(c, n) THEN Throws(call, AlchemyNotFound(c, n))
        ELSE Awaits(call, ExternalCall(<<"alchemy", c, n>>, "getTokenBalances",
                                       <<AddressOf(wallets[c])>>)))

GetTokenBalancesSettles ==
  \/ \E tokenBalances \in TokenBalanceChoices :
       Resume("getTokenBalances", "getTokenBalances",
              NextToken([Resumed(tokenBalances) EXCEPT !.pending = tokenBalances]))
  \/ Resume("getTokenBalances", "getTokenBalances", Throws(op, ClientError))

GetTokenMetadataSettles ==
  \/ \E metadata \in MetadataChoices :
       Resume("getTokenBalances", "getTokenMetadata",
              NextToken([Resumed(metadata) EXCEPT
                           !.result = Append(@, TokenBalanceOf(Head(op.pending), metadata,
                                                               op.chainType)),
                           !.pending = Tail(@)]))
  \/ Resume("getTokenBalances", "getTokenMetadata", Throws(op, ClientError))

\* sendTransaction up to its await on connectedWallet.sendTransaction
SendTransaction(c, n, to, amount) ==
  LET call == [Called("sendTransaction", c, n, <<to, amount>>) EXCEPT !.key = wallets[c]] IN
  Enter(IF WalletMissing(c) THEN Throws(call, WalletNotFound)
        ELSE IF ~HasClient(c, n) THEN Throws(call, ProviderNotFound(c, n))
        ELSE Awaits(call, ExternalCall(<<"provider", c, n>>, "sendTransaction",
                                       <<wallets[c], to, ParseEther(amount)>>)))

\* the wallet of the chain read again when the submission resolves
SigningWalletReread(call) == wallets[call.chainType]

\* const wallet = this.wallets[chainType], read once when sendTransaction is entered
SigningWallet(call) == call.key

\* the submission resolves with tx, or rejects
SendTransactionSettles ==
  \/ LET tx == [hash |-> HashOf(SigningWallet(op), op.args[1], ParseEther(op.args[2]))] IN
       Resume("sendTransaction", "sendTransaction",
              Returns(Resumed(tx),
                      <<[hash |-> tx.hash,
                         from |-> AddressOf(SigningWallet(op)),
                         to |-> op.args[1],
                         value |-> op.args[2],
                         timestamp |-> <<Now>>,
                         status |-> SentStatus,
                         chainType |-> op.chainType,
                         network |-> op.network]>>))
  \/ Resume("sendTransaction", "sendTransaction", Throws(op, ClientError))

\* signMessage up to the promise of wallet.signMessage
SignMessage(c, message) ==
  LET call == [Called("signMessage", c, NULL, <<message>>) EXCEPT !.key = wallets[c]] IN
  Enter(IF WalletMissing(c) THEN Throws(call, WalletNotFound)
        ELSE Awaits(call, ExternalCall(<<"wallet", wallets[c]>>, "signMessage", <<message>>)))

SignMessageSettles ==
  \/ LET signature == SignatureOf(op.key, op.args[1]) IN
       Resume("signMessage", "signMessage", Returns(Resumed(signature), <<signature>>))
  \/ Resume("signMessage", "signMessage", Throws(op, ClientError))

\* getTransactionHistory up to its await on alchemy.core.getAssetTransfers
GetTransactionHistory(c, n) ==
  LET call == [Called("getTransactionHistory", c, n, <<>>) EXCEPT !.key = wallets[c]] IN
  Enter(IF WalletMissing(c) THEN Throws(call, WalletNotFound)
        ELSE IF ~HasIndexer(c) THEN Returns(call, <<>>)
        ELSE IF ~HasClient(c, n) THEN Throws(call, AlchemyNotFound(c, n))
        ELSE Awaits(call, ExternalCall(<<"alchemy", c, n>>, "getAssetTransfers",
                                       <<AddressOf(wallets[c])>>)))

GetTransactionHistorySettles ==
  \/ \E transfers \in TransferChoices :
       Resume("getTransactionHistory", "getAssetTransfers",
              Returns(Resumed(transfers),
                      [i \in DOMAIN transfers |->
                         TransactionOf(transfers[i], op.chainType, op.network)]))
  \/ Resume("getTransactionHistory", "getAssetTransfers", Throws(op, ClientError))

\* ------------------------------------------- BrowserScreen: disconnecting

\* sessions the client's store kept from earlier runs of the app; their ids are not
\* ids of proposals of this run
RestoredSessions == {[id |-> 0, namespaces |-> <<>>], [id |-> -1, namespaces |-> <<>>]}

\* Web3Wallet.init resolved with a client that holds the sessions of its store.
\* Nothing reads the client's sessions before the first proposal is handled, so the
\* step is taken any time up to then.
RestoreSessions ==
  /\ walletClient # NULL
  /\ sessions = {}
  /\ disconnect.phase = "none"
  /\ \A p \in ProposalIds : proposals[p].phase = "none"
  /\ \E kept \in SUBSET RestoredSessions : kept # {} /\ sessions' = kept
  /\ UNCHANGED <<regVars, browserVars, proposals, connectedDapp, isConnecting, approveCalls,
                 alerts, taps, requestVars, pageVars, screenVars>>

\* the end of disconnectFromDapp after the loop
Disconnected(found) ==
  /\ connectedDapp' = NULL
  /\ alerts' = alerts \cup {Alert("Disconnected", "disconnect", 0)}
  /\ disconnect' = [phase |-> "Done", found |-> found, left |-> {}]

\* the Disconnect button (shown while connectedDapp is set): disconnectFromDapp up
\* to its first await on disconnectSession, or to its end when no session is active
DisconnectFromDapp ==
  /\ connectedDapp # NULL
  /\ walletClient # NULL
  /\ disconnect.phase # "Running"
  /\ taps' = taps \cup {Tap("disconnect", 0, "Disconnect")}
  /\ IF sessions = {}
       THEN Disconnected({})
       ELSE /\ disconnect' = [phase |-> "Running", found |-> sessions, left |-> sessions]
            /\ UNCHANGED <<connectedDapp, alerts>>
  /\ UNCHANGED <<regVars, walletClient, isWalletInitialized, registered, mounts, listeners,
                 pairings, proposals, isConnecting, approveCalls, sessions, requestVars,
                 pageVars, screenVars>>

\* disconnectSession of the next session resolves, and the loop goes on or ends; or
\* it rejects, and the catch shows the error alert
DisconnectSessionSettles ==
  /\ disconnect.phase = "Running"
  /\ \E session \in disconnect.left :
       \/ /\ sessions' = sessions \ {session}
          /\ IF disconnect.left = {session}
               THEN Disconnected(disconnect.found)
               ELSE /\ disconnect' = [disconnect EXCEPT !.left = @ \ {session}]
                    /\ UNCHANGED <<connectedDapp, alerts>>
       \/ /\ disconnect' = [disconnect EXCEPT !.phase = "Failed"]
          /\ alerts' = alerts \cup {Alert("Error", "disconnect", 0)}
          /\ UNCHANGED <<connectedDapp, sessions>>
  /\ UNCHANGED <<regVars, walletClient, isWalletInitialized, registered, mounts, listeners,
                 pairings, proposals, isConnecting, approveCalls, taps, requestVars,
                 pageVars, screenVars>>

\* the peer ends a session: the client drops it and emits session_delete, for which
\* the screen has registered no handler
SessionDeleted ==
  /\ \E session \in sessions : sessions' = sessions \ {session}
  /\ UNCHANGED <<regVars, browserVars, proposals, connectedDapp, isConnecting, approveCalls,
                 alerts, taps, requestVars, pageVars, screenVars>>

\* ------------------------------------------- BrowserScreen: WalletConnect URIs

\* data.uri.startsWith(prefix), for a URI held as <<scheme, rest>>
StartsWith(uri, prefix) == uri # NoUri /\ Head(uri) = prefix

\* messages of the page other than provider requests: text that is not JSON, a
\* WalletConnect URI (alone, or with a method beside it), an object with neither a
\* wc: URI nor a method
UriMessageChoices ==
  { [json |-> FALSE, uri |-> NoUri, method |-> NULL],
    [json |-> TRUE, uri |-> <<"wc:", "7f6e@2?relay-protocol=irn">>, method |-> NULL],
    [json |-> TRUE, uri |-> <<"wc:", "7f6e@2?relay-protocol=irn">>,
     method |-> "eth_requestAccounts"],
    [json |-> TRUE, uri |-> <<"https:", "//app.uniswap.org">>, method |-> NULL] }

\* the pairing is attempted whatever the state of the client
CanPairAlways == TRUE

\* if (walletClient && isWalletInitialized), in the handler of the current render
CanPair == walletClient # NULL /\ isWalletInitialized

\* onMessage with one of these messages: handleWalletConnectRequest, up to its await
\* on walletClient.pair (whose outcome changes nothing here) or to its end
UriMessage(r) ==
  /\ Mounted("browser")
  /\ pageRequests[r].phase = "none"
  /\ \A q \in PageRequestIds : q < r => pageRequests[q].phase # "none"
  /\ \E data \in UriMessageChoices :
       LET arrived == [pageRequests EXCEPT ![r].method = data.method, ![r].uri = data.uri] IN
       IF ~data.json
         THEN /\ pageRequests' = [arrived EXCEPT ![r].phase = "Unparsed"]
              /\ UNCHANGED <<pairings, alerts>>
       ELSE IF StartsWith(data.uri, "wc:")
         THEN IF CanPair
                THEN /\ pageRequests' = [arrived EXCEPT ![r].phase = "Pairing"]
                     /\ pairings' = Append(pairings, data.uri)
                     /\ UNCHANGED alerts
                ELSE /\ pageRequests' = [arrived EXCEPT ![r].phase = "NotInitialized"]
                     /\ alerts' = alerts \cup {Alert("Error", "uri", r)}
                     /\ UNCHANGED pairings
         ELSE /\ pageRequests' = [arrived EXCEPT ![r].phase = "Ignored"]
              /\ UNCHANGED <<pairings, alerts>>
  /\ UNCHANGED <<regVars, walletClient, isWalletInitialized, registered, mounts, listeners,
                 disconnect, proposalVars, taps, requestVars, injected, providerVars,
                 screenVars>>

\* ------------------------------------------------- WalletScreen: portfolio

\* CHAIN_NETWORKS: the networks of a chain, the default one first
CHAIN_NETWORKS ==
  (ETHEREUM :> <<"eth-mainnet", "eth-goerli">>) @@
  (POLYGON :> <<"polygon-mainnet", "polygon-mumbai">>)

\* the networks the network selector offers: CHAIN_NETWORKS[selectedChain] || []
networks ==
  IF selectedChain \in DOMAIN CHAIN_NETWORKS
    THEN {CHAIN_NETWORKS[selectedChain][i] : i \in DOMAIN CHAIN_NETWORKS[selectedChain]}
    ELSE {}

\* switchChain that leaves the network as it is
DefaultNetworkKept(c) == selectedNetwork

\* chainNetworks[0].network if the chain has networks, else the network stays
DefaultNetwork(c) ==
  IF c \in DOMAIN CHAIN_NETWORKS /\ Len(CHAIN_NETWORKS[c]) > 0
    THEN CHAIN_NETWORKS[c][1]
    ELSE selectedNetwork

\* nativeSymbol, nativeName of the chain
NativeToken(c) ==
  CASE c = "polygon" -> [symbol |-> "MATIC", name |-> "Polygon"]
    [] c = "solana" -> [symbol |-> "SOL", name |-> "Solana"]
    [] c = "binance" -> [symbol |-> "BNB", name |-> "Binance"]
    [] OTHER -> [symbol |-> "ETH", name |-> "Ethereum"]

\* what the node of network n of chain c holds for an address
BalanceOn(c, n, address) == <<c, n, address>>

\* what getTokenBalances returns for the wallet: no token, or one
HeldTokenChoices(c) ==
  { <<>>,
    <<TokenBalanceOf([contractAddress |-> "0xDA1", tokenBalance |-> "7"],
                     [symbol |-> "DAI", name |-> "Dai", decimals |-> 6, logo |-> "dai.png"],
                     c)>> }

\* the portfolio entry of a token balance
PortfolioEntry(token) ==
  [symbol |-> token.token.symbol, name |-> token.token.name, balance |-> token.balance,
   value |-> token.value, logoURI |-> token.token.logoURI]

\* portfolioData after the unshift of the native token
PortfolioData(c, nativeBalance, tokenBalances) ==
  <<[symbol |-> NativeToken(c).symbol, name |-> NativeToken(c).name,
     balance |-> nativeBalance, value |-> "0.00"]>>
    \o [i \in DOMAIN tokenBalances |-> PortfolioEntry(tokenBalances[i])]

PortfolioAlert == Alert("Error", "portfolio", 0)

\* what loadPortfolio writes besides the portfolio
Loading(ls, as, busy) == [loads |-> ls, alerts |-> as, isLoading |-> busy]

\* getTokenBalances(c, n) gets past its checks (the chains of the screen are indexed)
Ready(w, pr, c, n) == w[c] # NoKey /\ <<c, n>> \in pr

\* loadPortfolio() of a render whose isConnected, selectedChain and selectedNetwork
\* are connected, c and n, up to its await in getTokenBalances; when getTokenBalances
\* throws, the catch shows the alert and the finally block resets isLoading
LoadPortfolio(st, connected, c, n, ready) ==
  IF ~connected THEN st
  ELSE IF ~ready
    THEN [st EXCEPT !.alerts = @ \cup {PortfolioAlert}, !.isLoading = FALSE]
    ELSE [st EXCEPT !.isLoading = TRUE,
                    !.loads = @ \cup {[chainType |-> c, network |-> n,
                                       pc |-> "getTokenBalances", tokens |-> <<>>,
                                       key |-> NoKey]}]

\* the refresh effect after a render with the state c, n, connected: it runs when
\* one of its dependencies changed, and calls loadPortfolio() of that render
RefreshEffect(st, c, n, connected, ready) ==
  IF <<n, c, connected>> # <<selectedNetwork, selectedChain, isConnected>> /\ connected
    THEN LoadPortfolio(st, connected, c, n, ready)
    ELSE st

Loaded(st) ==
  /\ Cardinality(st.loads) <= MaxLoads
  /\ loads' = st.loads
  /\ alerts' = st.alerts
  /\ isLoading' = st.isLoading

\* initialize() of the mount effect goes on; when it resolves, initWallet continues
\* with the selectedChain, and the loadPortfolio, of the first render, and the
\* refresh effect follows
InitWallet ==
  /\ \/ LoadWalletStep("wallet")
     \/ LoadWalletFails("wallet")
  /\ IF initPc'["wallet"] = InitDone
       THEN LET found == wallets'[ETHEREUM] # NoKey
                first == LoadPortfolio(Loading(loads, alerts, isLoading), FALSE, ETHEREUM,
                                       DefaultNetwork(ETHEREUM), FALSE)
            IN  /\ isConnected' = found
                /\ walletAddress' = IF found THEN AddressOf(wallets'[ETHEREUM])
                                    ELSE walletAddress
                /\ Loaded(RefreshEffect(first, selectedChain, selectedNetwork, found,
                                        Ready(wallets', providers', selectedChain,
                                              selectedNetwork)))
                /\ UNCHANGED <<selectedChain, selectedNetwork, portfolio>>
       ELSE UNCHANGED <<screenVars, alerts>>
  /\ UNCHANGED <<browserVars, proposalVars, taps, requestVars, pageVars>>

\* createWallet of connectWallet returns: the address is shown, loadPortfolio() of
\* the render that showed the Connect button does nothing, the finally block resets
\* isLoading, and the refresh effect follows
ConnectWalletLoads ==
  /\ \E call \in creating, saved \in BOOLEAN :
       /\ call.caller = ConnectCaller
       /\ CreateWalletEnd(call, saved)
       /\ walletAddress' = AddressOf(call.key)
  /\ isConnected' = TRUE
  /\ LET own == LoadPortfolio(Loading(loads, alerts, isLoading), FALSE, selectedChain,
                              selectedNetwork, FALSE)
     IN  Loaded(RefreshEffect([own EXCEPT !.isLoading = FALSE], selectedChain,
                              selectedNetwork, TRUE,
                              Ready(wallets, providers, selectedChain, selectedNetwork)))
  /\ UNCHANGED <<browserVars, proposalVars, taps, requestVars, pageVars, selectedChain,
                 selectedNetwork, portfolio>>

\* disconnectWallet; the refresh effect finds isConnected false
DisconnectClears ==
  /\ Mounted("wallet")
  /\ isConnected
  /\ ~isLoading
  /\ isConnected' = FALSE
  /\ walletAddress' = NoAddress
  /\ portfolio' = <<>>
  /\ UNCHANGED <<regVars, browserVars, proposalVars, alerts, taps, requestVars, pageVars,
                 selectedChain, isLoading, selectedNetwork, loads>>

\* switchChain(c): loadPortfolio() is the one of the render the button was tapped
\* in, with that render's chain and network; the refresh effect follows with the new
\* ones
SwitchChainLoads(c) ==
  /\ Mounted("wallet")
  /\ selectedChain' = c
  /\ selectedNetwork' = DefaultNetwork(c)
  /\ isConnected' = hasWallet(c)
  /\ walletAddress' = getWalletAddress(c)
  /\ portfolio' = IF hasWallet(c) THEN portfolio ELSE <<>>
  /\ LET own == LoadPortfolio(Loading(loads, alerts, isLoading), hasWallet(c) /\ isConnected,
                              selectedChain, selectedNetwork,
                              Ready(wallets, providers, selectedChain, selectedNetwork))
     IN  Loaded(RefreshEffect(own, c, selectedNetwork', hasWallet(c),
                              Ready(wallets, providers, c, selectedNetwork')))
  /\ UNCHANGED <<regVars, browserVars, proposalVars, taps, requestVars, pageVars>>

\* switchNetwork(n), from a button of the network selector, and the refresh effect
SwitchNetwork(n) ==
  /\ Mounted("wallet")
  /\ n \in networks
  /\ selectedNetwork' = n
  /\ Loaded(RefreshEffect(Loading(loads, alerts, isLoading), selectedChain, n, isConnected,
                          Ready(wallets, providers, selectedChain, n)))
  /\ UNCHANGED <<regVars, browserVars, proposalVars, taps, requestVars, pageVars,
                 selectedChain, isConnected, walletAddress, portfolio>>

\* the Refresh button, shown while connected with an empty portfolio and not
\* loading: loadPortfolio() of the current render
RefreshPortfolio ==
  /\ Mounted("wallet")
  /\ isConnected
  /\ ~isLoading
  /\ portfolio = <<>>
  /\ Loaded(LoadPortfolio(Loading(loads, alerts, isLoading), isConnected, selectedChain,
                          selectedNetwork,
                          Ready(wallets, providers, selectedChain, selectedNetwork)))
  /\ UNCHANGED <<regVars, browserVars, proposalVars, taps, requestVars, pageVars,
                 selectedChain, isConnected, walletAddress, selectedNetwork, portfolio>>

\* a loadPortfolio resumes from getTokenBalances (the metadata of the tokens read)
\* and enters getBalance, which reads the wallet of the chain; or getTokenBalances
\* rejected
LoadTokensSettle ==
  /\ \E load \in loads :
       /\ load.pc = "getTokenBalances"
       /\ \/ /\ \E tokenBalances \in HeldTokenChoices(load.chainType) :
                  loads' = (loads \ {load}) \cup
                    {[load EXCEPT !.pc = "getBalance", !.tokens = tokenBalances,
                                  !.key = wallets[load.chainType]]}
             /\ UNCHANGED <<alerts, isLoading>>
          \/ /\ loads' = loads \ {load}
             /\ alerts' = alerts \cup {PortfolioAlert}
             /\ isLoading' = FALSE
  /\ UNCHANGED <<regVars, browserVars, proposalVars, taps, requestVars, pageVars,
                 selectedChain, isConnected, walletAddress, selectedNetwork, portfolio>>

\* a loadPortfolio resumes from getBalance and sets the portfolio; or getBalance
\* rejected
LoadBalanceSettle ==
  /\ \E load \in loads :
       /\ load.pc = "getBalance"
       /\ loads' = loads \ {load}
       /\ isLoading' = FALSE
       /\ \/ /\ portfolio' =
                  PortfolioData(load.chainType,
                                FormatEther(BalanceOn(load.chainType, load.network,
                                                      AddressOf(load.key))),
                                load.tokens)
             /\ UNCHANGED alerts
          \/ /\ alerts' = alerts \cup {PortfolioAlert}
             /\ UNCHANGED portfolio
  /\ UNCHANGED <<regVars, browserVars, proposalVars, taps, requestVars, pageVars,
                 selectedChain, isConnected, walletAddress, selectedNetwork>>

\* ------------------------------------- embedded page: the injected provider

\* response.result as sendResponse reads it: <<result>>, or <<>> (undefined) for a
\* response that has no result
ResultOf(response) ==
  IF "result" \in DOMAIN response THEN <<response.result>> ELSE <<>>

\* new Promise((resolve, reject) => ...) before either is called
Pending == [NoPromise EXCEPT !.state = "pending"]

\* callback.resolve(value), called while running the injected response number `by`:
\* it settles a pending promise and does nothing to a settled one
Resolve(promise, value, by) ==
  IF promise.state = "pending"
    THEN [state |-> "resolved", value |-> value, by |-> by, calls |-> promise.calls + 1]
    ELSE [promise EXCEPT !.calls = @ + 1]

\* window.ethereum.request({method, params}), called by the page
EthereumRequest(method) ==
  /\ nextId \in PageRequestIds
  /\ nextId' = nextId + 1
  /\ promises' = [promises EXCEPT ![nextId] = Pending]
  /\ callbacks' = callbacks \cup {nextId}
  /\ posted' = [posted EXCEPT ![nextId] = method]
  /\ UNCHANGED <<regVars, browserVars, proposalVars, alerts, taps, requestVars, pageRequests,
                 injected, delivered, screenVars>>

\* the page runs the next injected script: window.ethereum.sendResponse(response)
SendResponse ==
  /\ delivered < Len(injected)
  /\ delivered' = delivered + 1
  /\ LET response == injected[delivered + 1] IN
       IF response.id \in callbacks
         THEN /\ promises' = [promises EXCEPT ![response.id] =
                                Resolve(@, ResultOf(response), delivered + 1)]
              /\ callbacks' = callbacks \ {response.id}
         ELSE UNCHANGED <<promises, callbacks>>
  /\ UNCHANGED <<regVars, browserVars, proposalVars, alerts, taps, requestVars, pageRequests,
                 injected, nextId, posted, screenVars>>

\* onMessage with the message request() posted under id r
RequestArrives(r) ==
  /\ posted[r] # NULL
  /\ PageMessage(r)
  /\ pageRequests'[r].method = posted[r]

\* ------------------------------------------------------------ specification

EmptyStore == [c \in ChainTypes |-> NoKey]

\* the state after construction, with one of the given stores
InitialState(stores) ==
  /\ wallets = [c \in ChainTypes |-> NoKey]
  /\ storage \in stores
  /\ nextKey = Len(ChainOrder) + 1
  /\ creating = {}
  /\ returned = {}
  /\ providers = {}
  /\ initPc = [s \in Screens |-> 0]
  /\ walletClient = NULL
  /\ isWalletInitialized = FALSE
  /\ registered = FALSE
  /\ mounts = 0
  /\ listeners = {}
  /\ pairings = <<>>
  /\ disconnect = NoDisconnect
  /\ proposals = [p \in ProposalIds |-> NoProposal]
  /\ connectedDapp = NULL
  /\ isConnecting = FALSE
  /\ alerts = {}
  /\ approveCalls = {}
  /\ sessions = {}
  /\ taps = {}
  /\ requests = [r \in RequestIds |-> NoRequest]
  /\ walletCalls = <<>>
  /\ responses = <<>>
  /\ pageRequests = [r \in PageRequestIds |-> NoPageRequest]
  /\ injected = <<>>
  /\ nextId = 1
  /\ callbacks = {}
  /\ promises = [id \in PageRequestIds |-> NoPromise]
  /\ posted = [id \in PageRequestIds |-> NULL]
  /\ delivered = 0
  /\ selectedChain = ETHEREUM
  /\ isConnected = FALSE
  /\ walletAddress = NoAddress
  /\ isLoading = FALSE
  /\ selectedNetwork = "eth-mainnet"
  /\ portfolio = <<>>
  /\ loads = {}
  /\ op = NoOp

\* The store holds what earlier runs of the app left: nothing, or an Ethereum key.
Init == InitialState({EmptyStore, [EmptyStore EXCEPT ![ETHEREUM] = StoredKey(1)]})

\* the stores earlier runs can have left: a key for any of the chains
StoreChoices ==
  {[c \in ChainTypes |->
      IF c \in kept THEN StoredKey(CHOOSE i \in DOMAIN ChainOrder : ChainOrder[i] = c)
      ELSE NoKey] : kept \in SUBSET ChainTypes}

InitStartup == InitialState(StoreChoices)

BrowserInit == MountBrowser \/ BrowserLoadWallets \/ WalletConnectInit

ProposalNext ==
  \E p \in ProposalIds :
    \/ SessionProposal(p)
    \/ ProposalCancel(p)
    \/ ProposalCreateWallet(p)
    \/ ProposalWalletCreated(p)

WalletScreenNext ==
  \/ MountWalletScreen
  \/ WalletScreenLoadWallets
  \/ ConnectWallet
  \/ ConnectWalletReturn
  \/ DisconnectWallet
  \/ \E c \in ScreenChains : SwitchChain(c)

RequestNext ==
  \E r \in RequestIds :
    \/ SessionRequest(r)
    \/ RequestReject(r)
    \/ RequestApprove(r)
    \/ RequestSendSettles(r)
    \/ RequestSign(r)
    \/ RequestSignSettles(r)

PageNext ==
  \E r \in PageRequestIds :
    \/ PageMessage(r)
    \/ PageCancel(r)
    \/ PageCreateWallet(r)
    \/ PageWalletCreated(r)

RegistryNext ==
  \E s \in Screens :
    \/ ApiInitialize(s)
    \/ ApiCreateWalletReturn(s)
    \/ \E c \in ChainTypes : ApiCreateWallet(s, c)

\* the session bridge's proposals, with both screens writing to the registry
Next == BrowserInit \/ ProposalNext \/ WalletScreenNext

Spec == Init /\ [][Next]_vars

\* the same with the wallet screen left on its initial chain, Ethereum: every write
\* to the registry's Ethereum entry is still there
NextEthereum ==
  \/ BrowserInit
  \/ ProposalNext
  \/ MountWalletScreen
  \/ WalletScreenLoadWallets
  \/ ConnectWallet
  \/ ConnectWalletReturn
  \/ DisconnectWallet

SpecEthereum == Init /\ [][NextEthereum]_vars

\* the session bridge's requests
NextRequest == BrowserInit \/ RequestNext

SpecRequest == Init /\ [][NextRequest]_vars

\* the embedded page bridge
NextPage == BrowserInit \/ PageNext

SpecPage == Init /\ [][NextPage]_vars

\* the registry on its own, called by the two screens
SpecRegistry == Init /\ [][RegistryNext]_vars

\* the registry with the imports, called by one screen
WalletsNext ==
  \/ ApiInitialize("wallet")
  \/ ApiCreateWalletReturn("wallet")
  \/ \E c \in ChainTypes :
       \/ CanCall /\ ApiCreateWallet("wallet", c)
       \/ \E privateKey \in PrivateKeyChoices : ApiImportWallet("wallet", c, privateKey)
       \/ \E mnemonic \in MnemonicChoices : ApiImportWalletFromMnemonic("wallet", c, mnemonic)

SpecWallets == Init /\ [][WalletsNext]_vars

\* the operations of the registry, on the wallets one screen loads and creates
OperationsNext ==
  \/ ApiInitialize("wallet")
  \/ ApiCreateWalletReturn("wallet")
  \/ GetBalanceSettles
  \/ GetTokenBalancesSettles
  \/ GetTokenMetadataSettles
  \/ SendTransactionSettles
  \/ SignMessageSettles
  \/ GetTransactionHistorySettles
  \/ \E c \in ChainTypes :
       \/ CanCall /\ ApiCreateWallet("wallet", c)
       \/ \E message \in Messages : SignMessage(c, message)
       \/ \E n \in Networks :
            \/ GetBalance(c, n)
            \/ GetTokenBalances(c, n)
            \/ GetTransactionHistory(c, n)
            \/ \E to \in ToAddresses, amount \in Amounts : SendTransaction(c, n, to, amount)

SpecOperations == Init /\ [][OperationsNext]_vars

\* createWallet calls of the two screens, overlapping or not
OverlapNext ==
  \E s \in Screens :
    \/ ApiCreateWalletReturn(s)
    \/ \E c \in ChainTypes : ApiCreateWallet(s, c)

SpecOverlap == Init /\ [][OverlapNext]_vars

\* the two screens' initialize() at startup over any store, with a createWallet
StartupNext ==
  \E s \in Screens :
    \/ ApiInitialize(s)
    \/ ApiCreateWalletReturn(s)
    \/ \E c \in ChainTypes : CanCall /\ ApiCreateWallet(s, c)

SpecStartup == InitStartup /\ [][StartupNext]_vars

\* the session bridge connecting and disconnecting
DisconnectNext ==
  \/ BrowserInit
  \/ ProposalNext
  \/ RestoreSessions
  \/ DisconnectFromDapp
  \/ DisconnectSessionSettles
  \/ SessionDeleted

SpecDisconnect == Init /\ [][DisconnectNext]_vars

\* the browser screen mounted, left and mounted again, over any store
MountsNext == BrowserInit \/ UnmountBrowser

SpecMounts == InitStartup /\ [][MountsNext]_vars

\* the embedded page bridge with the WalletConnect URIs
PairingNext == BrowserInit \/ PageNext \/ \E r \in PageRequestIds : UriMessage(r)

SpecPairing == Init /\ [][PairingNext]_vars

\* the wallet screen with its portfolio
PortfolioNext ==
  \/ MountWalletScreen
  \/ InitWallet
  \/ CanCall /\ ConnectWallet
  \/ ConnectWalletLoads
  \/ DisconnectClears
  \/ \E c \in ScreenChains : SwitchChainLoads(c)
  \/ \E n \in Networks : SwitchNetwork(n)
  \/ RefreshPortfolio
  \/ LoadTokensSettle
  \/ LoadBalanceSettle

SpecPortfolio == Init /\ [][PortfolioNext]_vars

\* the stores that hold keys for chains of the wallet screen only
ScreenStores ==
  {store \in StoreChoices : \A c \in ChainTypes \ ScreenChains : store[c] = NoKey}

InitSelection == InitialState(ScreenStores)

\* the chain and network selectors of the wallet screen, over the wallets of the
\* store: the Connect button is not tapped
SelectionNext ==
  \/ MountWalletScreen
  \/ InitWallet
  \/ DisconnectClears
  \/ \E c \in ScreenChains : SwitchChainLoads(c)
  \/ \E n \in Networks : SwitchNetwork(n)
  \/ RefreshPortfolio
  \/ LoadTokensSettle
  \/ LoadBalanceSettle

SpecSelection == InitSelection /\ [][SelectionNext]_vars

\* the embedded page bridge with the provider on the page's side of it
ProviderNext ==
  \/ BrowserInit
  \/ \E method \in PageMethods : EthereumRequest(method)
  \/ SendResponse
  \/ \E r \in PageRequestIds :
       \/ RequestArrives(r)
       \/ PageCancel(r)
       \/ PageCreateWallet(r)
       \/ PageWalletCreated(r)

SpecProvider == Init /\ [][ProviderNext]_vars

\* ------------------------------------------------------------------ claims

ApproveStepReached(p) == proposals[p].phase \in {"Connected", "ConnectionError"}

\* C1: approveSession is issued for a proposal, and the proposal ends as approved,
\* only after the user chose to approve that proposal.
C1_ApproveOnlyAfterUserChoice ==
  \A p \in ProposalIds :
    (ApproveStepReached(p) \/ \E call \in approveCalls : call.id = p)
      => Tap("proposal", p, "Approve") \in taps

SendCalls(r) ==
  {i \in DOMAIN walletCalls :
     walletCalls[i].request = r /\ walletCalls[i].op = "sendTransaction"}

SignCalls(r) ==
  {i \in DOMAIN walletCalls :
     walletCalls[i].request = r /\ walletCalls[i].op = "signMessage"}

\* C2: a transaction request leads to exactly one sendTransaction call, with the to
\* and value of its prompt, once the user has tapped Approve on it, and to none
\* before that tap, on Reject, or for any other request.
C2_SendExactlyOnceOnApprove ==
  \A r \in RequestIds :
    /\ Cardinality(SendCalls(r)) <= 1
    /\ SendCalls(r) # {} <=>
         (requests[r].method = "eth_sendTransaction" /\ Tap("request", r, "Approve") \in taps)
    /\ Tap("request", r, "Reject") \in taps => SendCalls(r) = {}
    /\ \A i \in SendCalls(r) :
         /\ requests[r].prompt = <<"To", walletCalls[i].to, "Value", walletCalls[i].value>>
         /\ walletCalls[i].to = requests[r].params[1].to
         /\ walletCalls[i].value = requests[r].params[1].value

\* one transaction request approved and sent, another one rejected
C2_Witness ==
  \E r, q \in RequestIds :
    /\ requests[r].phase = "Sent" /\ SendCalls(r) # {}
    /\ requests[q].method = "eth_sendTransaction" /\ requests[q].phase = "Rejected"

Relayed(r, result) ==
  \E i \in DOMAIN responses :
    /\ responses[i].call = "respondSessionRequest"
    /\ responses[i].id = r
    /\ responses[i].topic = requests[r].topic
    /\ responses[i].result = result

RejectionRelayed(r) ==
  \E i \in DOMAIN responses : responses[i].id = r /\ responses[i].call = "rejectSession"

\* C3: a signing request leads to exactly one signMessage call, with its message,
\* only after Sign was tapped; the signature is relayed as the response; on Reject
\* no signMessage call is made and a rejection is relayed.
C3_SignAndRelay ==
  \A r \in RequestIds :
    /\ Cardinality(SignCalls(r)) <= 1
    /\ SignCalls(r) # {} <=>
         (requests[r].method \in SigningMethods /\ Tap("request", r, "Sign") \in taps)
    /\ \A i \in SignCalls(r) : walletCalls[i].message = requests[r].params[1]
    /\ requests[r].phase = "Signed" =>
         Relayed(r, SignatureOf(requests[r].key, requests[r].params[1]))
    /\ (requests[r].method \in SigningMethods /\ requests[r].phase = "Rejected") =>
         (SignCalls(r) = {} /\ RejectionRelayed(r))

\* C4: a response carrying the address is injected into the page only after the
\* user tapped a button for that request, and never while no wallet exists.
C4_AddressOnlyAfterTap ==
  \A i \in DOMAIN injected :
    "result" \in DOMAIN injected[i] =>
      /\ \E tap \in taps : tap.kind = "page" /\ tap.id = injected[i].id
      /\ hasWallet(ETHEREUM)

SupportedMethods == {"eth_sendTransaction"} \cup SigningMethods

\* C5: a request with an unsupported method is answered at once with a rejection
\* that says "not supported", with no prompt and no WalletService call.
C5_UnsupportedRejected ==
  \A r \in RequestIds :
    (requests[r].phase # "none" /\ requests[r].method \notin SupportedMethods) =>
      /\ \E i \in DOMAIN responses :
           responses[i].id = r /\ responses[i].message = "Method not supported"
      /\ requests[r].prompt = <<>>
      /\ \A tap \in taps : ~(tap.kind = "request" /\ tap.id = r)
      /\ \A i \in DOMAIN walletCalls : walletCalls[i].request # r

RequestSettled(r) ==
  requests[r].phase \in {"Rejected", "Failed", "Sent", "Signed", "Unsupported"}

\* C6: every request whose handling has ended was answered with exactly one
\* respondSessionRequest carrying its own id and topic.
C6_EveryRequestAnswered ==
  \A r \in RequestIds :
    RequestSettled(r) =>
      Cardinality({i \in DOMAIN responses :
                     /\ responses[i].call = "respondSessionRequest"
                     /\ responses[i].id = r
                     /\ responses[i].topic = requests[r].topic}) = 1

WalletCreatedFor(p) ==
  \E call \in returned : call.caller = ProposalCaller(p) /\ call.chain = ETHEREUM

\* C7: a proposal that arrived while no Ethereum wallet existed waits for wallet
\* creation; it reaches the approval step, and approveSession is issued for it,
\* only after the createWallet its Create Wallet tap started has returned, and
\* once that call has returned the same proposal has been handled again.
C7_NoApprovalBeforeWalletCreated ==
  \A p \in ProposalIds :
    (proposals[p].phase # "none" /\ ~proposals[p].hadWallet) =>
      /\ (ApproveStepReached(p) \/ \E call \in approveCalls : call.id = p)
           => WalletCreatedFor(p)
      /\ WalletCreatedFor(p) =>
           (proposals[p].retried /\ ApproveStepReached(p) /\ hasWallet(ETHEREUM))
      /\ ~WalletCreatedFor(p) =>
           proposals[p].phase \in
             {"AwaitingWalletCreation", "Cancelled", "CreatingWallet", "CreateFailed"}
      /\ proposals[p].phase = "CreatingWallet" =>
           Tap("proposal", p, "Create Wallet") \in taps

\* a proposal that had to wait for its wallet was retried after the creation
C7_Witness ==
  \E p \in ProposalIds :
    /\ ~proposals[p].hadWallet
    /\ WalletCreatedFor(p)
    /\ proposals[p].retried
    /\ proposals[p].phase = "Connected"

\* C8: a proposal approved while the wallet has address A was approved by an
\* approveSession call with its id and, for exactly the keys of requiredNamespaces,
\* accounts ["eip155:1:A"] and the required methods and events.
C8_ApproveSessionArguments ==
  \A p \in ProposalIds :
    proposals[p].phase = "Connected" =>
      \E call \in approveCalls :
        /\ call.id = p
        /\ DOMAIN call.namespaces = DOMAIN proposals[p].required
        /\ \A key \in DOMAIN call.namespaces :
             /\ call.namespaces[key].accounts = <<AccountId(proposals[p].address)>>
             /\ call.namespaces[key].methods = proposals[p].required[key].methods
             /\ call.namespaces[key].events = proposals[p].required[key].events

\* C9: every account approved for a session the bridge shows as connected is the
\* address the registry currently holds for Ethereum.
C9_SessionAccountsInRegistry ==
  \A p \in ProposalIds :
    proposals[p].phase = "Connected" =>
      \A key \in DOMAIN proposals[p].namespaces :
        \A i \in DOMAIN proposals[p].namespaces[key].accounts :
          /\ hasWallet(ETHEREUM)
          /\ proposals[p].namespaces[key].accounts[i] = AccountId(getWalletAddress(ETHEREUM))

\* C10 as claimed: when createWallet(chain) returns A, hasWallet(chain) holds and
\* getWalletAddress(chain) is A.
C10_ReturnedAddressIsCurrent ==
  [][\A call \in returned' \ returned :
       /\ wallets'[call.chain] # NoKey
       /\ AddressIn(wallets', call.chain) = AddressOf(call.key)]_vars

\* C10 amended: when createWallet(chain) returns A, hasWallet(chain) holds and
\* getWalletAddress(chain) is not empty; it is A unless the registry entry of the
\* chain was written again while the call was suspended in its storage write.
C10_ReturnedAddressIsCurrentUnlessOvertaken ==
  [][\A call \in returned' \ returned :
       /\ wallets'[call.chain] # NoKey
       /\ AddressIn(wallets', call.chain) # NoAddress
       /\ ~call.overtaken => AddressIn(wallets', call.chain) = AddressOf(call.key)]_vars

\* createWallet has returned on a chain no screen offers, and on another chain a
\* call that was overtaken has returned
C10_Witness ==
  /\ \E call \in returned :
       /\ call.chain \notin ScreenChains
       /\ ~call.overtaken
       /\ getWalletAddress(call.chain) = AddressOf(call.key)
  /\ \E call \in returned : call.overtaken

MalformedImport(call) ==
  \/ call.name = "importWallet" /\ call.args[1] \notin DOMAIN WellFormedKeys
  \/ call.name = "importWalletFromMnemonic" /\ call.args[1] \notin DOMAIN WellFormedMnemonics

\* C11: importWallet / importWalletFromMnemonic called with a malformed key or
\* phrase throws its invalid-credential error and leaves the registry's wallets
\* and the persisted entries of every chain as they were.
C11_MalformedImportFails ==
  [][(op' # op /\ MalformedImport(op')) =>
       /\ op'.phase = "Threw"
       /\ op'.error = IF op'.name = "importWallet" THEN <<"Invalid private key">>
                      ELSE <<"Invalid mnemonic phrase">>
       /\ wallets' = wallets
       /\ storage' = storage
       /\ creating' = creating]_vars

\* a malformed import has failed on a chain that holds a persisted wallet, while
\* another chain holds a wallet too
C11_Witness ==
  /\ op.phase = "Threw"
  /\ MalformedImport(op)
  /\ hasWallet(op.chainType)
  /\ storage[op.chainType] = wallets[op.chainType]
  /\ \E c \in ChainTypes \ {op.chainType} : hasWallet(c)

\* C12: sendTransaction, signMessage and getBalance called on a chain without a
\* wallet throw 'Wallet not found' and make no call on an external client, whether
\* or not a client is registered for the pair.
C12_NoWalletNoExternalCall ==
  (/\ op.name \in {"sendTransaction", "signMessage", "getBalance"}
   /\ op.phase # "none"
   /\ op.key = NoKey)
    => /\ op.phase = "Threw"
       /\ op.error = <<"Wallet not found">>
       /\ op.external = <<>>

\* sendTransaction has failed for want of a wallet on a pair that has a client
C12_Witness ==
  /\ op.name = "sendTransaction"
  /\ op.key = NoKey
  /\ op.phase = "Threw"
  /\ <<op.chainType, op.network>> \in providers
  /\ \E c \in ChainTypes : hasWallet(c)

\* C13: whenever no create or import call is in flight, the store holds for each
\* chain with a wallet the key of exactly that wallet; and when createWallet or an
\* import reports success, the entry of its chain holds the key of its wallet.
C13_PersistedEntryIsWalletKey ==
  [][/\ creating' = {} =>
          \A c \in ChainTypes : wallets'[c] # NoKey => storage'[c] = wallets'[c]
     /\ \A call \in returned' \ returned : storage'[call.chain] = call.key]_vars

ReturnedOn(c) == {call \in returned : call.chain = c}

\* the call on chain c that wrote the registry last: createRandom keys are numbered
\* in the order they are generated
LastWriter(c) == CHOOSE last \in ReturnedOn(c) : \A call \in ReturnedOn(c) : call.key <= last.key

\* C14: when createWallet calls on one chain have overlapped and all of them have
\* completed, the registry's wallet and the persisted entry of the chain are both
\* those of the call that wrote last.
C14_LastWriteWins ==
  \A c \in ChainTypes :
    (/\ \A call \in creating : call.chain # c
     /\ \E call \in ReturnedOn(c) : call.overtaken)
      => /\ wallets[c] = LastWriter(c).key
         /\ storage[c] = LastWriter(c).key

\* C15: once an initialize() has completed, no step of a further initialize()
\* (one started later, or one that was overlapping it) changes the wallet of any
\* chain or the table of registered clients.
C15_InitializeIdempotent ==
  [][((\E s \in Screens : initPc[s] = InitDone) /\ initPc' # initPc) =>
       /\ \A c \in ChainTypes : AddressIn(wallets', c) = AddressIn(wallets, c)
       /\ providers' = providers]_vars

\* loadWallets of screen s enters its catch in this step: the loop is left before
\* its last entry, or at its last entry while that entry holds a key that does not
\* become the wallet
CaughtLoadFailure(s) ==
  /\ initPc[s] \in DOMAIN ChainOrder
  /\ initPc'[s] = InitDone
  /\ \/ initPc[s] < Len(ChainOrder)
     \/ /\ storage[ChainOrder[initPc[s]]] # NoKey
        /\ wallets'[ChainOrder[initPc[s]]] # storage[ChainOrder[initPc[s]]]

Entered == op.phase = "none" /\ op'.phase # "none"

\* C17: an operation that needs the client of a pair that is not registered, called
\* on a chain with a wallet, throws the not-found error of its client table and
\* makes no external call; the client table is empty until an initialize() completes,
\* holds exactly the four pairs from then on, and no other operation writes it.
C17_UnregisteredClientFailsFast ==
  [][/\ (/\ Entered
         /\ op'.key # NoKey
         /\ <<op'.chainType, op'.network>> \notin providers
         /\ op'.name \in {"getBalance", "sendTransaction"})
          => /\ op'.phase = "Threw"
             /\ op'.error = <<"Provider not found for", op'.chainType, op'.network>>
             /\ op'.external = <<>>
     /\ (/\ Entered
         /\ op'.key # NoKey
         /\ <<op'.chainType, op'.network>> \notin providers
         /\ op'.name \in {"getTokenBalances", "getTransactionHistory"}
         /\ op'.chainType \in {"ethereum", "polygon"})
          => /\ op'.phase = "Threw"
             /\ op'.error = <<"Alchemy instance not found for", op'.chainType, op'.network>>
             /\ op'.external = <<>>
     /\ providers' # providers => \E s \in Screens : initPc[s] # InitDone /\ initPc'[s] = InitDone
     /\ \A s \in Screens :
          initPc'[s] = InitDone =>
            providers' = {<<"ethereum", "eth-mainnet">>, <<"ethereum", "eth-goerli">>,
                          <<"polygon", "polygon-mainnet">>, <<"polygon", "polygon-mumbai">>}
     /\ (\A s \in Screens : initPc'[s] # InitDone) => providers' = {}]_vars

\* after initialize(), getBalance on a chain with a wallet was refused for a
\* network that the chain has no client for
C17_Witness ==
  /\ op.name = "getBalance"
  /\ op.phase = "Threw"
  /\ op.error = ProviderNotFound(op.chainType, op.network)
  /\ op.key # NoKey
  /\ providers = ProviderKeys
  /\ op.external = <<>>

\* the operation followed is a listing on a chain without indexing integration
UnindexedListing ==
  /\ op.name \in {"getTokenBalances", "getTransactionHistory"}
  /\ op.phase # "none"
  /\ op.chainType \in {"solana", "binance"}

\* C18 as claimed: getTokenBalances and getTransactionHistory on solana and
\* binance return an empty list, raise no error and make no external call.
C18_UnindexedChainsReturnEmpty ==
  UnindexedListing =>
    /\ op.phase = "Returned"
    /\ op.result = <<>>
    /\ op.external = <<>>

\* C18 amended: on solana and binance the two operations make no external call;
\* they return an empty list when the chain has a wallet and throw 'Wallet not
\* found' when it has none.
C18_UnindexedChainsReturnEmptyWithWallet ==
  UnindexedListing =>
    /\ op.external = <<>>
    /\ op.key # NoKey => (op.phase = "Returned" /\ op.result = <<>> /\ op.error = <<>>)
    /\ op.key = NoKey => (op.phase = "Threw" /\ op.error = <<"Wallet not found">>)

\* getTokenBalances has returned the empty list for a solana wallet, for a network
\* that no client is registered for
C18_Witness ==
  /\ op.name = "getTokenBalances"
  /\ op.chainType = "solana"
  /\ op.key # NoKey
  /\ op.phase = "Returned"
  /\ op.result = <<>>
  /\ providers = ProviderKeys

\* the wallet of chain c is written by a create or import call on c in this step
WrittenByCall(c) ==
  \E call \in creating' \ creating :
    call.chain = c /\ ~call.overtaken /\ call.key = wallets'[c]

\* the wallet of chain c is loaded from its persisted entry by a step of initialize()
WrittenByLoad(c) ==
  \E s \in Screens :
    /\ initPc[s] \in DOMAIN ChainOrder
    /\ ChainOrder[initPc[s]] = c
    /\ initPc'[s] = initPc[s] + 1
    /\ storage[c] # NoKey
    /\ wallets'[c] = storage[c]

\* C19 as claimed: a chain that has a wallet keeps having one, and the wallet of a
\* chain changes only by a createWallet / importWallet / importWalletFromMnemonic
\* call on that chain.
C19_WalletChangesOnlyByCreateOrImport ==
  [][\A c \in ChainTypes :
       /\ wallets[c] # NoKey => wallets'[c] # NoKey
       /\ wallets'[c] # wallets[c] => WrittenByCall(c)]_vars

\* C19 amended: a chain that has a wallet keeps having one, and the wallet of a
\* chain changes only by a create or import call on that chain, or by initialize()
\* reading that chain's persisted entry, which makes the persisted key the wallet.
C19_WalletChangesOnlyByCreateImportOrLoad ==
  [][\A c \in ChainTypes :
       /\ wallets[c] # NoKey => wallets'[c] # NoKey
       /\ wallets'[c] # wallets[c] => (WrittenByCall(c) \/ WrittenByLoad(c))]_vars

\* the Ethereum wallet was loaded from the store and is still the stored one, and
\* an import has given another chain its wallet
C19_Witness ==
  /\ initPc["wallet"] = InitDone
  /\ wallets[ETHEREUM] = StoredKey(1)
  /\ storage[ETHEREUM] = StoredKey(1)
  /\ \E call \in returned :
       /\ call.chain # ETHEREUM
       /\ call.key \in {WellFormedKeys[text] : text \in DOMAIN WellFormedKeys}
       /\ wallets[call.chain] = call.key

\* C20: the Transaction a successful sendTransaction returns has status pending,
\* the hash the submission returned, the address of the signing wallet as from, and
\* the to, value, chainType and network of the call; every entry a successful
\* getTransactionHistory returns has status confirmed.
C20_TransactionFields ==
  /\ (op.name = "sendTransaction" /\ op.phase = "Returned") =>
       /\ Len(op.result) = 1
       /\ Len(op.external) = 1
       /\ op.result[1].status = "pending"
       /\ op.result[1].hash = op.received[1].hash
       /\ op.result[1].from = AddressOf(op.external[1].args[1])
       /\ op.result[1].to = op.args[1]
       /\ op.result[1].value = op.args[2]
       /\ op.result[1].chainType = op.chainType
       /\ op.result[1].network = op.network
       /\ op.external[1].args[2] = op.args[1]
  /\ (op.name = "getTransactionHistory" /\ op.phase = "Returned") =>
       \A i \in DOMAIN op.result : op.result[i].status = "confirmed"

\* a transaction was sent from a wallet created in this run and returned
C20_Witness ==
  /\ op.name = "sendTransaction"
  /\ op.phase = "Returned"
  /\ op.key > Len(ChainOrder)
  /\ op.result[1].from = getWalletAddress(op.chainType)

PageHandled(r) ==
  pageRequests[r].phase \in {"Answered", "Unsupported", "Cancelled", "CreateFailed", "Dropped"}

ResponsesTo(r) == {i \in DOMAIN injected : injected[i].id = r}

\* C22: every message of the page whose handling has ended was given exactly one
\* response with its id and jsonrpc "2.0": for eth_requestAccounts a result holding
\* one address, or an error when the user cancelled the wallet creation; for any
\* other method the error "Method not supported".
C22_EveryMessageAnsweredOnce ==
  \A r \in PageRequestIds :
    PageHandled(r) =>
      /\ Cardinality(ResponsesTo(r)) = 1
      /\ \A i \in ResponsesTo(r) :
           /\ injected[i].jsonrpc = "2.0"
           /\ IF pageRequests[r].method # "eth_requestAccounts"
                THEN /\ "error" \in DOMAIN injected[i]
                     /\ injected[i].error.message = "Method not supported"
              ELSE IF Tap("page", r, "Cancel") \in taps
                THEN "error" \in DOMAIN injected[i]
                ELSE /\ "result" \in DOMAIN injected[i]
                     /\ Len(injected[i].result) = 1
                     /\ injected[i].result[1] # NoAddress

\* the createWallet calls of connectWallet in a set of calls
ConnectCalls(calls) == {call \in calls : call.caller = ConnectCaller}

\* C23: when connectWallet runs while the registry holds a wallet for the selected
\* chain, it starts no createWallet (so no persisted key is written for it) and
\* leaves the wallet of that chain and its address as they are.
C23_ConnectKeepsExistingWallet ==
  [][(ConnectCalls(creating') # ConnectCalls(creating) /\ hasWallet(selectedChain)) =>
       /\ ConnectCalls(creating') \subseteq ConnectCalls(creating)
       /\ wallets'[selectedChain] = wallets[selectedChain]
       /\ AddressIn(wallets', selectedChain) = AddressIn(wallets, selectedChain)]_vars

\* approveSession was invoked for a proposal of the dApp and the session is active
ApprovedFor(name) ==
  \E call \in approveCalls :
    /\ proposals[call.id].name = name
    /\ call \in sessions

\* C24: the connected-dApp indicator is set, and the 'Connected' alert of a proposal
\* is shown, only if approveSession was invoked on the client for that dApp and
\* succeeded; while the indicator is set at least one session is active.
C24_ConnectedOnlyAfterApproval ==
  /\ connectedDapp # NULL => (ApprovedFor(connectedDapp) /\ sessions # {})
  /\ \A p \in ProposalIds :
       ProposalAlert("Connected", p) \in alerts => ApprovedFor(proposals[p].name)

\* C25: while the wallet screen shows itself connected, the registry holds a wallet
\* for the selected chain and the address shown is that wallet's address.
C25_ConnectedShowsSelectedWallet ==
  isConnected =>
    /\ hasWallet(selectedChain)
    /\ walletAddress = getWalletAddress(selectedChain)

\* a sendTransaction is suspended in the submission
SendInFlight == op.name = "sendTransaction" /\ op.phase = "Awaiting"

\* C27: a sendTransaction entered while wallet W is the wallet of its chain hands W
\* to the submission; a write to the registry while the send is suspended changes
\* nothing of the send; and when the send returns, its transaction carries the hash
\* of the submission signed by W and from = W.address.
C27_SendKeepsItsWallet ==
  [][/\ (op.phase = "none" /\ op'.name = "sendTransaction" /\ op'.phase = "Awaiting") =>
          /\ op'.external[1].args[1] = wallets[op'.chainType]
          /\ op'.external[1].args[1] # NoKey
     /\ SendInFlight =>
          /\ wallets' # wallets => op' = op
          /\ op'.phase = "Returned" =>
               /\ op'.result[1].from = AddressOf(op.external[1].args[1])
               /\ op'.result[1].hash =
                    HashOf(op.external[1].args[1], op.args[1], <<"wei", op.args[2]>>)]_vars

\* a createWallet has replaced the wallet of the chain of a send that is still in flight
C27_Witness ==
  /\ SendInFlight
  /\ wallets[op.chainType] # op.external[1].args[1]
  /\ \E call \in creating \cup returned : call.chain = op.chainType

\* C21: when disconnectFromDapp finishes, none of the sessions that were active when
\* it started is active and the connected-dApp indicator is cleared; and when the
\* last session is ended from outside, the indicator is cleared too.
C21_DisconnectClosesSessions ==
  [][/\ (disconnect.phase = "Running" /\ disconnect'.phase # "Running") =>
          /\ sessions' \cap disconnect'.found = {}
          /\ connectedDapp' = NULL
     /\ (disconnect.phase # "Running" /\ sessions # {} /\ sessions' = {}) =>
          connectedDapp' = NULL]_vars

\* C28: the session handlers are attached only to a client that was initialized, for
\* the current mount only and once per mount; after an unmount none stays attached;
\* so at any time at most one handler pair receives an inbound event.
C28_HandlersOfCurrentMountOnly ==
  /\ registered <=> mounts \in listeners
  /\ registered => walletClient # NULL
  /\ listeners \subseteq {mounts}
  /\ initPc["browser"] = 0 => listeners = {}
  /\ Cardinality(listeners) <= 1

\* message r of the page is handled in this step
Arrives(r) == pageRequests[r].phase = "none" /\ pageRequests'[r].phase # "none"

\* C29: a message with a uri that starts with "wc:" hands that uri to pair exactly
\* when the client exists and initialization has completed, and otherwise shows the
\* error alert and pairs nothing; in both cases nothing of a provider request
\* happens for it (no response, no prompt, no registry write); a message that is
\* not JSON changes nothing.
C29_PairOnlyWhenInitialized ==
  [][\A r \in PageRequestIds :
       Arrives(r) =>
         /\ (Len(pageRequests'[r].uri) > 0 /\ pageRequests'[r].uri[1] = "wc:") =>
              /\ IF walletClient # NULL /\ isWalletInitialized
                   THEN /\ pairings' = Append(pairings, pageRequests'[r].uri)
                        /\ alerts' = alerts
                   ELSE /\ pairings' = pairings
                        /\ alerts' = alerts \cup {Alert("Error", "uri", r)}
              /\ injected' = injected
              /\ UNCHANGED <<storeVars, taps>>
              /\ pageRequests'[r].phase \in {"Pairing", "NotInitialized"}
         /\ pairings' # pairings => (walletClient # NULL /\ isWalletInitialized)
         /\ pageRequests'[r].phase = "Unparsed" =>
              UNCHANGED <<regVars, browserVars, proposalVars, alerts, taps, requestVars,
                          injected, screenVars>>]_vars

\* one wc: message arrived before the client was initialized and was refused, and
\* another one, with a method beside the uri, arrived later and was paired
C29_Witness ==
  \E r, q \in PageRequestIds :
    /\ pageRequests[r].phase = "NotInitialized"
    /\ Alert("Error", "uri", r) \in alerts
    /\ pageRequests[q].phase = "Pairing"
    /\ pageRequests[q].method = "eth_requestAccounts"
    /\ pairings = <<pageRequests[q].uri>>

\* the portfolio shown was loaded for chain c and network n: the native token of c
\* comes first, with the balance the node of n holds
ShownFor(c, n) ==
  /\ portfolio[1].symbol = (IF c = "polygon" THEN "MATIC" ELSE "ETH")
  /\ portfolio[1].balance[2][1] = c
  /\ portfolio[1].balance[2][2] = n

\* C26, the settled portfolio: when no loadPortfolio is in flight and none has
\* failed, a portfolio that is shown is the one of the selected chain and network.
C26_SettledPortfolioIsSelected ==
  (loads = {} /\ portfolio # <<>> /\ PortfolioAlert \notin alerts) =>
    ShownFor(selectedChain, selectedNetwork)

\* C26, after disconnectWallet: while the screen stays disconnected, the empty
\* portfolio stays empty.
C26_DisconnectedStaysEmpty ==
  [][(~isConnected /\ portfolio = <<>> /\ ~isConnected') => portfolio' = <<>>]_vars

\* C26: once all loadPortfolio calls in flight have settled, the portfolio shown is
\* the one loaded for the selected chain and network, the chain's native token
\* first, in whatever order the loads completed; and after disconnectWallet the
\* portfolio stays empty.
C26_PortfolioFollowsSelection ==
  []C26_SettledPortfolioIsSelected /\ C26_DisconnectedStaysEmpty

\* C30: the selected network is one of CHAIN_NETWORKS[selectedChain], and a step
\* that changes the selected chain selects the first network of the new chain.
C30_NetworkOfSelectedChain ==
  /\ [](/\ selectedChain \in DOMAIN CHAIN_NETWORKS
        /\ \E i \in DOMAIN CHAIN_NETWORKS[selectedChain] :
             selectedNetwork = CHAIN_NETWORKS[selectedChain][i])
  /\ [][selectedChain' # selectedChain =>
          selectedNetwork' = CHAIN_NETWORKS[selectedChain'][1]]_vars

\* Polygon was selected while a load for Goerli, a network of Ethereum that is not
\* its first, was in flight: the network is now the first of Polygon
C30_Witness ==
  /\ selectedChain = POLYGON
  /\ selectedNetwork = "polygon-mainnet"
  /\ \E load \in loads : load.chainType = ETHEREUM /\ load.network = "eth-goerli"

Settled(id) == promises[id].state \in {"resolved", "rejected"}

\* C31: in the provider of the page, request() never hands out an id it has handed
\* out before; resolve or reject is called at most once for a request, and only
\* while running a response that carries the request's id; a settled request has no
\* entry left in _callbacks; and a request settled by a response that carries an
\* error is rejected, not resolved.
C31_ProviderSettlesByItsResponse ==
  /\ [](\A id \in PageRequestIds :
          /\ promises[id].state # "none" => id < nextId
          /\ promises[id].calls <= 1
          /\ Settled(id) =>
               /\ promises[id].by \in 1..delivered
               /\ injected[promises[id].by].id = id
               /\ id \notin callbacks
               /\ "error" \in DOMAIN injected[promises[id].by] =>
                    promises[id].state = "rejected")
  /\ [][nextId' # nextId =>
          /\ nextId' > nextId
          /\ promises[nextId].state = "none"
          /\ posted[nextId] = NULL]_vars
====
